---- MODULE Spec2Model ----
(***************************************************************************)
(* The gateway name-system worker of noosphere-gateway                     *)
(* (worker/name_system.rs): the job channel, the single worker loop, the   *)
(* reconnecting resolver client, and the four job kinds acting on a shared *)
(* sphere context and on an external name resolver.                        *)
(***************************************************************************)
EXTENDS Integers, Sequences, FiniteSets, TLC

(* ------------------------------ bounds -------------------------------- *)
\* jobs ever sent on the channel
MaxJobs == 2
\* revisions appended to the sphere by the client (petname changes)
MaxWrites == 2
\* operations in one client-made changelog
MaxOps == 1
\* the wall clock reads a time in 1..MaxNow
MaxNow == 2
\* spheres served by the gateway whose periodic tasks are followed
MaxSpheres == 2
\* seconds of the periodic tasks that are followed
MaxClock == 300
\* the ucan headers of one request
MaxHeaders == 2
\* the requests the gateway is followed through
MaxRequests == 1
MaxCalls == 3
MaxFacts == 3

(* ------------------------------ values -------------------------------- *)
NoRecord == "no_record"
NoLink == "no_link"
\* the absent entry of a map from petnames to identity records
NoIdentity == [did |-> "no_did", link_record |-> NoRecord]
NoReply == "no_reply"
ReplyNone == "reply_none"

\* petnames, in the sorted order of the versioned map and of a BTreeMap
NameOrder == <<"a", "b">>
Petnames == {NameOrder[i] : i \in 1..Len(NameOrder)}

\* the sphere this gateway serves, and the spheres petnames point at
Counterpart == "d0"
PeerDids == {"d1"}
Dids == {Counterpart} \cup PeerDids

\* A link-record is a UCAN: iss its issuer, aud its audience (the sphere
\* the record is for), facts the link of each fact that is an object with a
\* link field ("bad" when the field does not parse as a content address),
\* nbf the optional not-before time (a set of at most one time), exp the
\* expiry, with and can the capability it claims, prf the tokens it cites
\* as proofs and signed whether its signature verifies. A proof is a UCAN
\* with no proofs of its own, known by its jwt.
Ucan(iss, aud, facts, nbf, exp, with, can, prf, signed) ==
  [iss |-> iss, aud |-> aud, facts |-> facts, nbf |-> nbf, exp |-> exp,
   with |-> with, can |-> can, prf |-> prf, signed |-> signed]

\* The link-records in circulation: self-signed by the sphere's key, except
\* r4, issued by a key that holds no delegation and carrying no link.
LinkRecords ==
  [ r1 |-> Ucan("d0", "d0", <<"c1">>, {}, 9, "d0", "publish", {}, TRUE),
    r2 |-> Ucan("d0", "d0", <<"c2">>, {}, 1, "d0", "publish", {}, TRUE),
    r3 |-> Ucan("d1", "d1", <<"c3">>, {}, 9, "d1", "publish", {}, TRUE),
    r4 |-> Ucan("k1", "d1", <<"bad">>, {}, 9, "d1", "publish", {}, TRUE) ]
RecordIds == DOMAIN LinkRecords
\* the records the gateway is asked to publish: those of its counterpart
OwnRecords == {r \in RecordIds : LinkRecords[r].aud = Counterpart}
\* the records other gateways publish to the name system
PeerRecords == RecordIds \ OwnRecords

(* ------------------------ tokens and their chains --------------------- *)
\* SphereAction: push appends revisions, publish asserts a link-record
SphereActions == {"push", "publish"}

Capability(with, can) == [with |-> with, can |-> can]
\* Capability::enables under SPHERE_SEMANTICS: same sphere and same action
\* (push implies push, publish implies publish, neither implies the other)
enables(capability, desired) ==
  /\ capability.with = desired.with
  /\ capability.can = desired.can

\* Ucan::is_expired and Ucan::is_too_early at a given time
ucan_is_expired(u, t) == u.exp < t
ucan_is_too_early(u, t) == \E n \in u.nbf : n > t

\* Ucan::validate at a given time: its time bounds and its signature
ucan_validate(u, t) ==
  ~ucan_is_expired(u, t) /\ ~ucan_is_too_early(u, t) /\ u.signed

\* a proof may be cited by a token it was issued to and whose lifetime its
\* own lifetime covers
proof_links_to(p, u) ==
  /\ p.aud = u.iss
  /\ p.exp >= u.exp
  /\ \A n \in p.nbf : \E m \in u.nbf : n <= m

\* ProofChain::from_ucan at a given time, against a store of witness jwts:
\* Ok when the token and every proof it cites validate at that time, every
\* proof is in the store and may be cited by the token
from_ucan(u, t, store) ==
  /\ ucan_validate(u, t)
  /\ \A p \in u.prf :
       p.jwt \in store /\ ucan_validate(p, t) /\ proof_links_to(p, u)

\* ProofChain::reduce_capabilities: the capability the token claims, with
\* the root issuers of the proofs that enable it as originators, or the
\* token's own issuer when no proof enables it
reduce_capabilities(u) ==
  LET enabling == {p \in u.prf :
                     enables(Capability(p.with, p.can), Capability(u.with, u.can))}
  IN {[capability |-> Capability(u.with, u.can),
       originators |-> IF enabling = {} THEN {u.iss}
                       ELSE {p.iss : p \in enabling}]}

(* --------------------------- link records ----------------------------- *)
LinkRecord_sphere_identity(u) == u.aud

\* Cid::try_from(text): the text parses, and the address it parses to ("C1"
\* is the address c1 in another encoding)
Cid_parses(text) == text \in {"c1", "c2", "c3", "C1"}
Cid_try_from(text) == IF text = "C1" THEN "c1" ELSE text

\* A fact of a token is written as the text of its link field, when it is
\* an object whose link field is a string; the other facts are "scalar" (no
\* object), "no_field" (an object without a link field) and "number_link"
\* (an object whose link field is no string).
as_object(fact) == fact # "scalar"
fields_get_link(fact) == fact # "no_field"
\* cid_string.as_str().unwrap_or_default()
as_str_or_default(fact) == IF fact = "number_link" THEN "" ELSE fact

\* a get_link that gives up at the first fact that holds no link
RECURSIVE first_link_or_fail(_, _)
first_link_or_fail(facts, i) ==
  IF i > Len(facts) THEN NoLink
  ELSE IF /\ as_object(facts[i])
          /\ fields_get_link(facts[i])
          /\ Cid_parses(as_str_or_default(facts[i]))
    THEN Cid_try_from(as_str_or_default(facts[i]))
  ELSE NoLink
\* `for fact in facts`: the first fact that is an object with a link field
\* that parses gives the result; any other fact is skipped with a warning
RECURSIVE first_link(_, _)
first_link(facts, i) ==
  IF i > Len(facts) THEN NoLink
  ELSE IF /\ as_object(facts[i])
          /\ fields_get_link(facts[i])
          /\ Cid_parses(as_str_or_default(facts[i]))
    THEN Cid_try_from(as_str_or_default(facts[i]))
  ELSE first_link(facts, i + 1)

LinkRecord_get_link(u) == first_link(u.facts, 1)

\* a validation that consults the wall clock
now_time_current(u, current) == current
\* the time at which validate evaluates the proof: the token's not-before,
\* or its expiry - 1; what the wall clock reads is not consulted
now_time(u, current) ==
  IF u.nbf # {} THEN CHOOSE n \in u.nbf : TRUE ELSE u.exp - 1

\* a validation that asks for push only
desired_capability_push(identity) == Capability(identity, "push")
\* generate_capability(identity, SphereAction::Publish)
desired_capability(identity) == Capability(identity, "publish")

\* the loop of validate over the reduced capabilities
has_capability(u, identity) ==
  \E capability_info \in reduce_capabilities(u) :
    /\ identity \in capability_info.originators
    /\ enables(capability_info.capability, desired_capability(identity))

\* LinkRecord::validate against a store of witness jwts
LinkRecord_validate(u, store, current) ==
  /\ LinkRecord_get_link(u) # NoLink
  /\ from_ucan(u, now_time(u, current), store)
  /\ has_capability(u, LinkRecord_sphere_identity(u))
  /\ u.signed

LinkRecord_has_publishable_timeframe(u, t) ==
  ~ucan_is_expired(u, t) /\ ~ucan_is_too_early(u, t)

\* the same, on the records in circulation
sphere_identity(r) == LinkRecord_sphere_identity(LinkRecords[r])
get_link(r) == LinkRecord_get_link(LinkRecords[r])
validate(r) == LinkRecord_validate(LinkRecords[r], {}, 1)
is_expired(r, t) == ucan_is_expired(LinkRecords[r], t)
is_too_early(r, t) == ucan_is_too_early(LinkRecords[r], t)

has_publishable_timeframe(r, t) == ~is_expired(r, t) /\ ~is_too_early(r, t)

(* ------------------------- the sphere context ------------------------- *)
\* An identity record of the address book (IdentityIpld).
IdentityIpld(did, rec) == [did |-> did, link_record |-> rec]
\* Changelog operations of the identities map (MapOperation).
Add(k, v) == [op |-> "Add", key |-> k, value |-> v]
Remove(k) == [op |-> "Remove", key |-> k, value |-> NoIdentity]

EmptyBook == [k \in Petnames |-> NoIdentity]

RECURSIVE apply_changelog(_, _, _)
apply_changelog(book, changes, i) ==
  IF i > Len(changes) THEN book
  ELSE apply_changelog([book EXCEPT ![changes[i].key] = changes[i].value],
                       changes, i + 1)

\* The address book at revision n: the changelogs of revisions 1..n applied
\* in order to the empty map.
RECURSIVE book_at(_, _)
book_at(hist, n) ==
  IF n = 0 THEN EmptyBook
  ELSE apply_changelog(book_at(hist, n - 1), hist[n].changes, 1)

\* to_sphere().get_address_book().get_identities() at the latest version
get_identities(hist) == book_at(hist, Len(hist))

\* names.into_stream(): the entries of the map in sorted key order
RECURSIVE into_stream(_, _)
into_stream(book, i) ==
  IF i > Len(NameOrder) THEN <<>>
  ELSE (IF book[NameOrder[i]] # NoIdentity
          THEN << <<NameOrder[i], book[NameOrder[i]]>> >> ELSE <<>>)
       \o into_stream(book, i + 1)

\* IdentityIpld::link_record: the stored record the entry points at
link_record(identity) == identity.link_record

\* resolve_petname: the link of the record the petname's entry points at
resolve_petname(hist, name) ==
  LET identity == get_identities(hist)[name] IN
  IF identity = NoIdentity THEN ReplyNone
  ELSE IF identity.link_record = NoRecord THEN ReplyNone
  ELSE IF get_link(identity.link_record) = NoLink THEN ReplyNone
  ELSE get_link(identity.link_record)

\* The versioned map's set(key, Some(value)) on the pending mutation: one
\* operation per key, in the order of first mention.
RECURSIVE set_op(_, _, _)
set_op(changes, o, i) ==
  IF i > Len(changes) THEN Append(changes, o)
  ELSE IF changes[i].key = o.key THEN [changes EXCEPT ![i] = o]
  ELSE set_op(changes, o, i + 1)

\* adopt_petname: fails if the petname is not set; otherwise the entry is
\* made to reference the record (pending until the next save).
adopt_petname(hist, pending, name, rec) ==
  LET identity == get_identities(hist)[name] IN
  IF identity = NoIdentity
    THEN [ok |-> FALSE, unsaved |-> pending]
    ELSE [ok |-> TRUE,
          unsaved |-> set_op(pending, Add(name, IdentityIpld(identity.did, rec)), 1)]

has_unsaved_changes(pending) == pending # <<>>

\* SphereCursor::save: one new revision holding every pending change, and
\* the content written with it (NoRecord when no content was written).
save(hist, pending, content) ==
  Append(hist, [changes |-> pending, content |-> content])

\* into_history_stream(since): the revisions from the latest one back to,
\* and not including, since (0 when since is None), newest first.
RECURSIVE into_history_stream(_, _, _)
into_history_stream(hist, n, since) ==
  IF n <= since THEN <<>>
  ELSE <<n>> \o into_history_stream(hist, n - 1, since)

(* ------------------------------ resolving ----------------------------- *)
\* fetch_record: the resolver's answer for the identity; a resolver error is
\* logged and turned into None.
fetch_record(ns, did, fails) == IF fails THEN NoRecord ELSE ns[did]

\* The constant guarding validation of resolved records in resolve_all
\* (`if false`).
ValidateResolved == FALSE

\* The end of one turn of resolve_all's loop: the record is adopted when
\* the resolver gave one, it passes the (disabled) validation and it differs
\* from the last known one. st.ok turns FALSE where the loop leaves with `?`.
adopt_changed(st, name, did, last_known_record, next_record, a, fails) ==
  LET skipped == \/ next_record = NoRecord
                 \/ ValidateResolved /\ ~validate(next_record)
                 \/ last_known_record = next_record
  IN [ok |-> skipped \/ a.ok,
      unsaved |-> IF skipped THEN st.unsaved ELSE a.unsaved,
      resolved |-> Append(st.resolved, did),
      adopted |-> IF ~skipped /\ a.ok
                    THEN Append(st.adopted, <<name, next_record>>)
                    ELSE st.adopted,
      resolve_failed |-> st.resolve_failed \/ fails,
      fetched |-> Append(st.fetched, next_record)]

\* One turn of resolve_all's loop, for the entry <<name, identity>>.
resolve_one(st, name, identity, hist, ns, fails) ==
  adopt_changed(st, name, identity.did, link_record(identity),
                fetch_record(ns, identity.did, fails),
                adopt_petname(hist, st.unsaved, name,
                              fetch_record(ns, identity.did, fails)),
                fails)

\* `while let Some((name, identity)) = stream.try_next().await?`
RECURSIVE resolve_each(_, _, _, _, _, _)
resolve_each(stream, i, st, hist, ns, failing) ==
  IF i > Len(stream) \/ ~st.ok THEN st
  ELSE resolve_each(stream, i + 1,
         resolve_one(st, stream[i][1], stream[i][2], hist, ns,
                     stream[i][1] \in failing),
         hist, ns, failing)

\* What a job hands back: its result, the sphere context and the resolver
\* after it, and what it did: the records passed to resolver.publish and
\* whether that call failed, the entries handed to resolve_all, the
\* identities passed to resolver.resolve, what fetch_record made of each
\* answer and whether a call failed, the
\* <<name, record>> pairs adopted, the revisions saved, and the reply sent on
\* the one-shot channel.
Outcome(ok, hist, pending, ns) ==
  [ok |-> ok, history |-> hist, unsaved |-> pending, ns |-> ns,
   published |-> <<>>, publish_failed |-> FALSE, stream |-> <<>>,
   resolved |-> <<>>, adopted |-> <<>>, resolve_failed |-> FALSE,
   fetched |-> <<>>,
   saved |-> 0, reply |-> NoReply]

\* The end of resolve_all: save once if anything is pending.
save_if_changed(st, stream, hist, ns) ==
  LET saves == st.ok /\ has_unsaved_changes(st.unsaved) IN
  [Outcome(st.ok,
           IF saves THEN save(hist, st.unsaved, NoRecord) ELSE hist,
           IF saves THEN <<>> ELSE st.unsaved,
           ns)
     EXCEPT !.stream = stream,
            !.resolved = st.resolved, !.adopted = st.adopted,
            !.resolve_failed = st.resolve_failed,
            !.fetched = st.fetched,
            !.saved = IF saves THEN 1 ELSE 0]

resolve_all(stream, hist, pending, ns, failing) ==
  save_if_changed(
    resolve_each(stream, 1,
      [ok |-> TRUE, unsaved |-> pending, resolved |-> <<>>,
       adopted |-> <<>>, resolve_failed |-> FALSE, fetched |-> <<>>],
      hist, ns, failing),
    stream, hist, ns)

(* ------------------------------ the jobs ------------------------------ *)
Job(id, kind, record, enforce, since, name) ==
  [id |-> id, kind |-> kind, record |-> record,
   temporary_validate_expiry |-> enforce, since |-> since, name |-> name]
NoJob == Job(0, "none", NoRecord, FALSE, 0, "no_name")

\* set_counterpart_record: write the record under link_record/<counterpart>
\* and save; fails before writing when the counterpart key is not set.
set_counterpart_record(hist, pending, record, key_ok) ==
  IF ~key_ok THEN [ok |-> FALSE, history |-> hist, unsaved |-> pending]
  ELSE [ok |-> TRUE, history |-> save(hist, pending, record), unsaved |-> <<>>]

\* a Publish arm that never looks at the record's timeframe
publishable_unchecked(job, t) == TRUE

\* `let publishable = if temporary_validate_expiry { ... } else { true }`
publishable(job, t) ==
  IF job.temporary_validate_expiry
    THEN has_publishable_timeframe(job.record, t)
    ELSE TRUE

\* client.publish(record): the name system keeps the record on success
publish(ns, record, publish_ok) ==
  IF publish_ok THEN [ns EXCEPT ![sphere_identity(record)] = record] ELSE ns

\* a Publish arm that hands the record to the resolver, then looks at its
\* timeframe
publish_then_check(job, set, ns, t, publish_ok) ==
  LET saved == IF set.ok THEN 1 ELSE 0 IN
  [Outcome(publish_ok /\ publishable(job, t), set.history, set.unsaved,
           publish(ns, job.record, publish_ok))
     EXCEPT !.published = <<job.record>>,
            !.publish_failed = ~publish_ok, !.saved = saved]
\* the rest of the Publish arm, once the counterpart record was set
publish_after_set(job, set, ns, t, publish_ok) ==
  LET saved == IF set.ok THEN 1 ELSE 0 IN
  IF publishable(job, t)
    THEN [Outcome(publish_ok, set.history, set.unsaved,
                  publish(ns, job.record, publish_ok))
            EXCEPT !.published = <<job.record>>,
                   !.publish_failed = ~publish_ok, !.saved = saved]
    ELSE [Outcome(FALSE, set.history, set.unsaved, ns) EXCEPT !.saved = saved]

\* a Publish arm that looks at the timeframe before it stores the record
publish_job_checking_first(job, hist, pending, ns, t, key_ok, publish_ok) ==
  IF publishable(job, t)
    THEN publish_after_set(job,
           set_counterpart_record(hist, pending, job.record, key_ok),
           ns, t, publish_ok)
    ELSE Outcome(FALSE, hist, pending, ns)
\* the Publish arm: the counterpart record is set (an error is logged),
\* then the timeframe is checked, then the record is published
publish_job(job, hist, pending, ns, t, key_ok, publish_ok) ==
  publish_after_set(job,
    set_counterpart_record(hist, pending, job.record, key_ok),
    ns, t, publish_ok)

resolve_all_job(job, hist, pending, ns, failing) ==
  resolve_all(into_stream(get_identities(hist), 1), hist, pending, ns, failing)

\* history_stream.fold(VecDeque::new(), push_front)
RECURSIVE fold_push_front(_, _, _)
fold_push_front(stream, i, all) ==
  IF i > Len(stream) THEN all
  ELSE fold_push_front(stream, i + 1, <<stream[i]>> \o all)

\* one changelog, operation by operation
RECURSIVE scan_changelog(_, _, _)
scan_changelog(changes, i, acc) ==
  IF i > Len(changes) THEN acc
  ELSE LET o == changes[i] IN
       scan_changelog(changes, i + 1,
         IF o.op = "Add"
           THEN IF o.key \notin acc.names_to_ignore
                   /\ acc.names_to_resolve[o.key] = NoIdentity
                  THEN [acc EXCEPT !.names_to_resolve[o.key] = o.value]
                  ELSE acc
           ELSE [acc EXCEPT !.names_to_ignore = @ \cup {o.key}])

\* for (_, sphere) in reverse_history
RECURSIVE scan_history(_, _, _, _)
scan_history(hist, reverse_history, i, acc) ==
  IF i > Len(reverse_history) THEN acc
  ELSE scan_history(hist, reverse_history, i + 1,
         scan_changelog(hist[reverse_history[i]].changes, 1, acc))

names_since(hist, since) ==
  LET reverse_history ==
        fold_push_front(into_history_stream(hist, Len(hist), since), 1, <<>>)
  IN scan_history(hist, reverse_history, 1,
       [names_to_resolve |-> EmptyBook, names_to_ignore |-> {}])

resolve_since_job(job, hist, pending, ns, failing) ==
  resolve_all(into_stream(names_since(hist, job.since).names_to_resolve, 1),
              hist, pending, ns, failing)

\* a ResolveImmediately arm that looks the petname up before resolving it
reply_unresolved(job, hist, r) ==
  IF r.ok THEN [r EXCEPT !.reply = resolve_petname(hist, job.name)]
  ELSE r

\* the end of the ResolveImmediately arm: `?` on resolve_all, then reply
\* with resolve_petname on the context as resolve_all left it
reply_resolved(job, hist, r) ==
  IF r.ok THEN [r EXCEPT !.reply = resolve_petname(r.history, job.name)]
  ELSE r

resolve_immediately_job(job, hist, pending, ns, failing) ==
  IF get_identities(hist)[job.name] = NoIdentity
    THEN [Outcome(TRUE, hist, pending, ns) EXCEPT !.reply = ReplyNone]
    ELSE reply_resolved(job, hist,
           resolve_all(<< <<job.name, get_identities(hist)[job.name]>> >>,
                       hist, pending, ns, failing))

\* The body of process_job's callback: the match on the job.
run_job(job, hist, pending, ns, t, key_ok, publish_ok, failing) ==
  CASE job.kind = "Publish" ->
         publish_job(job, hist, pending, ns, t, key_ok, publish_ok)
    [] job.kind = "ResolveAll" ->
         resolve_all_job(job, hist, pending, ns, failing)
    [] job.kind = "ResolveSince" ->
         resolve_since_job(job, hist, pending, ns, failing)
    [] job.kind = "ResolveImmediately" ->
         resolve_immediately_job(job, hist, pending, ns, failing)

(* --------------------------- the state machine ------------------------ *)
VARIABLES
  queue,      \* the unbounded job channel: jobs sent and not yet received
  sent,       \* how many jobs were ever sent (a job's id is its rank)
  pc,         \* where name_system_task stands: "recv", "process", "stopped"
  current,    \* the job in flight (NoJob while receiving)
  client,     \* TryOrReset's instance: 0 when absent, else its serial number
  made,       \* how many clients the factory has constructed
  history,    \* the sphere's revisions, oldest first: changelog and content
  unsaved,    \* the shared context's pending address-book changes
  ns,         \* the name system: identity -> published record
  writes,     \* how many revisions the client has appended
  started,    \* ids of the jobs handed to process_job, in that order
  done,       \* id, result and reply of every finished job, in that order
  last,       \* what the most recently finished job did
  local_spheres, \* the periodic tasks' served spheres: counterpart, history
  clock,      \* seconds since start_name_system
  publisher,  \* periodic_publisher_task: position in its loop, wake-up time
  resolver,   \* periodic_resolver_task: position in its cycle, wake-up time
  requests,   \* every visit of a sphere by a periodic task, with its job
  tokens,     \* the gateway's token store: the jwts written to it
  exchange,   \* the gateway's server side, its last request and the answer
  checked,    \* a link-record under validation, and the results
  revocation, \* a revocation record, who made it and who verified it
  verification, \* a memo put to verify_sphere_cid, and the result
  replication, \* a revision, the tasks streaming its blocks, and the stream
  channel \* a message channel: the messages queued, the processor, the calls

worker_vars == <<queue, sent, pc, current, client, made, history, unsaved, ns,
                 writes, started, done, last>>
periodic_vars == <<local_spheres, clock, publisher, resolver, requests>>
gateway_vars == <<tokens, exchange>>
link_vars == <<checked>>
\* the components followed apart from the name-system tasks
rest_vars == <<revocation, verification, replication, channel>>
apart_vars == <<gateway_vars, link_vars, rest_vars>>
vars == <<worker_vars, periodic_vars, apart_vars>>

\* the periodic tasks, left out of a specification
NoPeriodic ==
  /\ local_spheres = <<>>
  /\ clock = 0
  /\ publisher = [pc |-> "sleep", index |-> 1, wake |-> 0]
  /\ resolver = [pc |-> "sleep", index |-> 1, wake |-> 0]
  /\ requests = <<>>

NoRun ==
  [job |-> NoJob, ran |-> FALSE, now |-> 1, key_ok |-> TRUE,
   head_before |-> 0,
   out |-> Outcome(TRUE, <<>>, <<>>, [d \in Dids |-> NoRecord])]

\* The sphere when the worker starts: its first revision, with nothing in
\* the address book, or that and a revision in which the client set a petname.
Genesis == [changes |-> <<>>, content |-> NoRecord]
InitialHistories ==
  { <<Genesis>>,
    <<Genesis, [changes |-> <<Add("a", IdentityIpld("d1", NoRecord))>>,
                content |-> NoRecord]>> }

\* the gateway's request handling, left out of a specification
NoGateway ==
  /\ tokens = {}
  /\ exchange = [status |-> 0]

\* the validation of link-records, left out of a specification
NoLinkCheck == checked = [validated |-> "none"]

\* the other components, left out of a specification
NoRevocation == revocation = [verified |-> "none"]
NoVerification == verification = [verified |-> "none"]
NoReplication == replication = [pc |-> "none"]
NoChannel == channel = [processor |-> "none"]
NoRest ==
  /\ NoRevocation
  /\ NoVerification
  /\ NoReplication
  /\ NoChannel

\* the name-system worker, left out of a specification
NoWorker ==
  /\ queue = <<>> /\ sent = 0 /\ pc = "recv" /\ current = NoJob
  /\ client = 0 /\ made = 0
  /\ history = <<Genesis>> /\ unsaved = <<>> /\ writes = 0
  /\ ns = [d \in Dids |-> NoRecord]
  /\ started = <<>> /\ done = <<>> /\ last = NoRun

Init ==
  /\ queue = <<>>
  /\ sent = 0
  /\ pc = "recv"
  /\ current = NoJob
  /\ client = 0
  /\ made = 0
  /\ history \in InitialHistories
  /\ unsaved = <<>>
  /\ ns = [d \in Dids |-> NoRecord]
  /\ writes = 0
  /\ started = <<>>
  /\ done = <<>>
  /\ last = NoRun
  /\ NoPeriodic
  /\ NoGateway
  /\ NoRest
  /\ NoLinkCheck

(* tx.send(job) on the unbounded channel *)
send(job) ==
  /\ sent < MaxJobs
  /\ queue' = Append(queue, job)
  /\ sent' = sent + 1
  /\ UNCHANGED <<pc, current, client, made, history, unsaved, ns, writes,
                 started, done, last>>
  /\ UNCHANGED <<periodic_vars, apart_vars>>

SendPublish ==
  \E r \in OwnRecords, enforce \in BOOLEAN :
    send(Job(sent + 1, "Publish", r, enforce, 0, "no_name"))

SendResolveAll ==
  send(Job(sent + 1, "ResolveAll", NoRecord, FALSE, 0, "no_name"))

SendResolveSince ==
  \E since \in 0..Len(history) :
    send(Job(sent + 1, "ResolveSince", NoRecord, FALSE, since, "no_name"))

SendResolveImmediately ==
  \E name \in Petnames :
    send(Job(sent + 1, "ResolveImmediately", NoRecord, FALSE, 0, name))

(* the client sets or unsets petnames: a new revision with its changelog *)
ClientOps(book, k) ==
  {Add(k, IdentityIpld(d, NoRecord)) : d \in {x \in PeerDids : book[k].did # x}}
    \cup (IF book[k] # NoIdentity THEN {Remove(k)} ELSE {})

RECURSIVE changelog_of(_, _)
changelog_of(f, i) ==
  IF i > Len(NameOrder) THEN <<>>
  ELSE (IF NameOrder[i] \in DOMAIN f THEN <<f[NameOrder[i]]>> ELSE <<>>)
       \o changelog_of(f, i + 1)

ClientWrite ==
  /\ writes < MaxWrites
  /\ \E keys \in SUBSET Petnames :
       /\ keys # {}
       /\ Cardinality(keys) <= MaxOps
       /\ \E f \in [keys -> UNION {ClientOps(get_identities(history), k) : k \in keys}] :
            /\ \A k \in keys : f[k] \in ClientOps(get_identities(history), k)
            /\ history' = Append(history,
                 [changes |-> changelog_of(f, 1), content |-> NoRecord])
  /\ writes' = writes + 1
  /\ UNCHANGED <<queue, sent, pc, current, client, made, unsaved, ns,
                 started, done, last>>
  /\ UNCHANGED <<periodic_vars, apart_vars>>

(* another gateway publishes a record of its sphere to the name system *)
PeerPublish ==
  /\ \E r \in PeerRecords :
       /\ ns[sphere_identity(r)] # r
       /\ ns' = [ns EXCEPT ![sphere_identity(r)] = r]
  /\ UNCHANGED <<queue, sent, pc, current, client, made, history, unsaved,
                 writes, started, done, last>>
  /\ UNCHANGED <<periodic_vars, apart_vars>>

(* name_system_task: `while let Some(job) = receiver.recv().await` *)
\* a loop that takes the next job without awaiting the one in flight
may_recv_unawaited(at) == at # "stopped"
\* the loop receives only once process_job has been awaited
may_recv(at) == at = "recv"
\* recv() hands out the oldest job of the channel
recv_index(q) == 1
\* a loop that leaves on the first failing job (`process_job(..).await?`)
after_job_propagate(ok) == IF ok THEN "recv" ELSE "stopped"
\* where the loop goes once process_job has returned: an error is logged
after_job(ok) == "recv"

WorkerRecv ==
  /\ may_recv(pc)
  /\ queue # <<>>
  /\ LET i == recv_index(queue) IN
       /\ current' = queue[i]
       /\ queue' = [j \in 1..(Len(queue) - 1) |->
                      IF j < i THEN queue[j] ELSE queue[j + 1]]
       /\ started' = Append(started, queue[i].id)
  /\ pc' = "process"
  /\ UNCHANGED <<sent, client, made, history, unsaved, ns, writes, done,
                 last>>
  /\ UNCHANGED <<periodic_vars, apart_vars>>

\* TryOrReset: the instance the callback gets (0 when the factory fails)
try_instance(instance, count, connect_ok) ==
  IF instance # 0 THEN instance
  ELSE IF connect_ok THEN count + 1 ELSE 0
\* TryOrReset: the instance kept once the callback has returned
reset_on_error(instance, ok) == IF ok THEN instance ELSE 0

\* What invoke hands back: the job's outcome, the instance the body ran
\* with (0 when it did not run) and the instance held afterwards.
invoked(out, instance) ==
  [out |-> out, instance |-> instance,
   with_client |-> reset_on_error(instance, out.ok)]

\* the body runs only when an instance could be had
with_instance(job, instance, hist, pending, store, env) ==
  invoked(IF instance = 0 THEN Outcome(FALSE, hist, pending, store)
          ELSE run_job(job, hist, pending, store, env.now, env.key_ok,
                       env.publish_ok, env.failing),
          instance)

\* process_job: with_client.invoke(|client| the job's body)
process_job(job, with_client, count, hist, pending, store, env) ==
  with_instance(job, try_instance(with_client, count, env.connect_ok),
                hist, pending, store, env)

\* The answers the environment can give to the calls a job makes: whether
\* the client factory connects (asked only when no instance is held), whether
\* the counterpart key is set and resolver.publish succeeds (Publish), what
\* the wall clock reads (Publish with expiry enforcement), and for which
\* names resolver.resolve fails (the resolve jobs).
Answers(job, instance) ==
  [connect_ok : IF instance = 0 THEN BOOLEAN ELSE {TRUE},
   key_ok : IF job.kind = "Publish" THEN BOOLEAN ELSE {TRUE},
   publish_ok : IF job.kind = "Publish" THEN BOOLEAN ELSE {TRUE},
   now : IF job.kind = "Publish" /\ job.temporary_validate_expiry
           THEN 1..MaxNow ELSE {1},
   failing : IF job.kind = "Publish" THEN {{}}
             ELSE IF job.kind = "ResolveImmediately" THEN SUBSET {job.name}
             ELSE SUBSET Petnames]

WorkerProcess ==
  /\ pc = "process"
  /\ \E env \in Answers(current, client) :
     \E run \in {process_job(current, client, made, history, unsaved, ns, env)} :
       LET ran == run.instance # 0
           fresh == client = 0 /\ ran
       IN
       /\ client' = run.with_client
       /\ made' = IF fresh THEN made + 1 ELSE made
       /\ history' = run.out.history
       /\ unsaved' = run.out.unsaved
       /\ ns' = run.out.ns
       /\ done' = Append(done,
            [id |-> current.id, kind |-> current.kind,
             record |-> current.record, ok |-> run.out.ok,
             reply |-> run.out.reply, ran |-> ran, fresh |-> fresh,
             client |-> run.instance,
             publish_failed |-> run.out.publish_failed,
             resolve_failed |-> run.out.resolve_failed])
       /\ last' = [job |-> current, ran |-> ran, now |-> env.now,
                   key_ok |-> env.key_ok,
                   head_before |-> Len(history), out |-> run.out]
       /\ pc' = after_job(run.out.ok)
  /\ current' = NoJob
  /\ UNCHANGED <<queue, sent, writes, started>>
  /\ UNCHANGED <<periodic_vars, apart_vars>>

Next ==
  \/ SendPublish
  \/ SendResolveAll
  \/ SendResolveSince
  \/ SendResolveImmediately
  \/ ClientWrite
  \/ PeerPublish
  \/ WorkerRecv
  \/ WorkerProcess

Spec == Init /\ [][Next]_vars

(* --------------------------- the periodic tasks ----------------------- *)
PERIODIC_PUBLISH_INTERVAL_SECONDS == 5 * 60
PERIODIC_RESOLVER_INTERVAL_SECONDS == 60

\* The spheres a gateway serves, in the order of local_spheres, and the
\* link-records of each.
ServedDids == <<"d0", "d1">>
RecordsOf(did) == {r \in RecordIds : sphere_identity(r) = did}

\* a served sphere's context whose counterpart record, if any, was stored
\* by an earlier Publish job
SphereContext(did, stored) ==
  [did |-> did, unsaved |-> <<>>,
   history |-> IF stored = NoRecord THEN <<Genesis>>
               ELSE <<Genesis, [changes |-> <<>>, content |-> stored]>>]

\* context.read(link_record/<counterpart>): what the newest revision that
\* wrote the file holds
RECURSIVE read(_, _)
read(hist, n) ==
  IF n = 0 THEN NoRecord
  ELSE IF hist[n].content # NoRecord THEN hist[n].content
  ELSE read(hist, n - 1)

\* get_counterpart_record: Err when the counterpart key is not set, else
\* the stored record, if any
get_counterpart_record(hist, key_ok) ==
  IF ~key_ok THEN [ok |-> FALSE, record |-> NoRecord]
  ELSE [ok |-> TRUE, record |-> read(hist, Len(hist))]

\* the channel's receiver is dropped when name_system_task returns
receiver_closed(at) == at = "stopped"

\* tx.send(job) by a periodic task: the job is queued unless the
\* receiver is closed (the error is logged), or there is nothing to send
\* (found tells whether the sphere could be read)
enqueue(by, context, found, job) ==
  LET queued == job # NoJob /\ ~receiver_closed(pc) IN
  /\ queue' = IF queued THEN Append(queue, job) ELSE queue
  /\ sent' = IF queued THEN sent + 1 ELSE sent
  /\ requests' = Append(requests,
       [at |-> clock, by |-> by, context |-> context, found |-> found,
        head |-> Len(local_spheres[context].history), job |-> job])

\* a publisher whose jobs enforce the record's timeframe
periodic_publish_enforced(id, found) ==
  IF found.ok /\ found.record # NoRecord
    THEN Job(id, "Publish", found.record, TRUE, 0, "no_name")
    ELSE NoJob

\* periodic_publish_record: the job sent for a sphere, NoJob when its
\* counterpart record could not be found
periodic_publish_record(id, found) ==
  IF found.ok /\ found.record # NoRecord
    THEN Job(id, "Publish", found.record, FALSE, 0, "no_name")
    ELSE NoJob

\* periodic_publisher_task after a sphere: the next one, or the sleep
publisher_step(p, n, now) ==
  IF p.index < n THEN [p EXCEPT !.index = @ + 1]
  ELSE [pc |-> "sleep", index |-> 1,
        wake |-> now + PERIODIC_PUBLISH_INTERVAL_SECONDS]

PublisherVisit ==
  /\ publisher.pc = "round"
  /\ \E key_ok \in BOOLEAN :
       enqueue("publisher", publisher.index, key_ok,
         periodic_publish_record(sent + 1,
           get_counterpart_record(local_spheres[publisher.index].history,
                                  key_ok)))
  /\ publisher' = publisher_step(publisher, Len(local_spheres), clock)
  /\ UNCHANGED <<pc, current, client, made, history, unsaved, ns, writes,
                 started, done, last, local_spheres, clock, resolver>>
  /\ UNCHANGED apart_vars

PublisherWake ==
  /\ publisher.pc = "sleep"
  /\ clock >= publisher.wake
  /\ publisher' = [publisher EXCEPT !.pc = "round"]
  /\ UNCHANGED <<worker_vars, local_spheres, clock, resolver, requests>>
  /\ UNCHANGED apart_vars

\* a resolver that never moves on to the next sphere
cycle_stuck(i, n) == i
\* local_spheres.iter().cycle(): the sphere after the i-th of n
cycle(i, n) == (i % n) + 1

ResolverSend ==
  /\ resolver.pc = "send"
  /\ enqueue("resolver", resolver.index, TRUE,
       Job(sent + 1, "ResolveAll", NoRecord, FALSE, 0, "no_name"))
  /\ resolver' = [pc |-> "sleep",
                  index |-> cycle(resolver.index, Len(local_spheres)),
                  wake |-> clock + PERIODIC_RESOLVER_INTERVAL_SECONDS]
  /\ UNCHANGED <<pc, current, client, made, history, unsaved, ns, writes,
                 started, done, last, local_spheres, clock, publisher>>
  /\ UNCHANGED apart_vars

ResolverWake ==
  /\ resolver.pc = "sleep"
  /\ clock >= resolver.wake
  /\ resolver' = [resolver EXCEPT !.pc = "send"]
  /\ UNCHANGED <<worker_vars, local_spheres, clock, publisher, requests>>
  /\ UNCHANGED apart_vars

\* tokio::time::sleep: time passes while both periodic tasks sleep and the
\* worker waits on the empty channel, up to the first wake-up time (the
\* tasks' own steps take no time)
next_wake(a, b) == IF a <= b THEN a ELSE b

Tick ==
  /\ publisher.pc = "sleep" /\ resolver.pc = "sleep"
  /\ pc = "recv" /\ queue = <<>>
  /\ clock < next_wake(publisher.wake, resolver.wake)
  /\ next_wake(publisher.wake, resolver.wake) <= MaxClock
  /\ clock' = next_wake(publisher.wake, resolver.wake)
  /\ UNCHANGED <<worker_vars, local_spheres, publisher, resolver, requests>>
  /\ UNCHANGED apart_vars

\* the `context` a job was sent with
context_of(log, id) ==
  log[CHOOSE i \in 1..Len(log) : log[i].job.id = id].context

\* the answers of Answers, the wall clock reading any time when a Publish
\* job runs
PeriodicAnswers(job, instance) ==
  {[env EXCEPT !.now = t] :
     env \in Answers(job, instance),
     t \in IF job.kind = "Publish" THEN 1..MaxNow ELSE {1}}

(* name_system_task's process_job, on the context the job carries *)
PeriodicProcess ==
  /\ pc = "process"
  /\ \E env \in PeriodicAnswers(current, client) :
     \E i \in {context_of(requests, current.id)} :
     \E run \in {process_job(current, client, made, local_spheres[i].history,
                             local_spheres[i].unsaved, ns, env)} :
       /\ client' = run.with_client
       /\ made' = IF client = 0 /\ run.instance # 0 THEN made + 1 ELSE made
       /\ local_spheres' = [local_spheres EXCEPT
                              ![i].history = run.out.history,
                              ![i].unsaved = run.out.unsaved]
       /\ ns' = run.out.ns
       /\ last' = [job |-> current, ran |-> run.instance # 0, now |-> env.now,
                   key_ok |-> env.key_ok,
                   head_before |-> Len(local_spheres[i].history),
                   out |-> run.out]
       /\ pc' = after_job(run.out.ok)
  /\ current' = NoJob
  /\ UNCHANGED <<queue, sent, history, unsaved, writes, started, done, clock,
                 publisher, resolver, requests>>
  /\ UNCHANGED apart_vars

\* start_name_system: the three tasks joined, on 1..MaxSpheres spheres
PeriodicInit ==
  /\ NoWorker
  /\ \E n \in 1..next_wake(MaxSpheres, Len(ServedDids)) :
       local_spheres \in
         {f \in [1..n -> UNION {{SphereContext(ServedDids[i], r) :
                      r \in RecordsOf(ServedDids[i]) \cup {NoRecord}} : i \in 1..n}] :
            \A i \in 1..n : f[i].did = ServedDids[i]}
  /\ clock = 0
  /\ publisher = [pc |-> "round", index |-> 1, wake |-> 0]
  /\ resolver = [pc |-> "send", index |-> 1, wake |-> 0]
  /\ requests = <<>>
  /\ NoGateway
  /\ NoRest
  /\ NoLinkCheck

PeriodicNext ==
  \/ PublisherVisit
  \/ PublisherWake
  \/ ResolverSend
  \/ ResolverWake
  \/ Tick
  \/ WorkerRecv
  \/ PeriodicProcess

PeriodicSpec == PeriodicInit /\ [][PeriodicNext]_vars

(* ------------- the publisher beside the clients' Publish jobs ---------- *)
\* The worker of one sphere whose counterpart record, if any, was stored by
\* an earlier Publish job; its clients send Publish jobs while the periodic
\* publisher republishes what is stored.
RepublishInit ==
  /\ queue = <<>>
  /\ sent = 0
  /\ pc = "recv"
  /\ current = NoJob
  /\ client = 0
  /\ made = 0
  /\ history \in {SphereContext(Counterpart, r).history :
                    r \in OwnRecords \cup {NoRecord}}
  /\ unsaved = <<>>
  /\ ns = [d \in Dids |-> NoRecord]
  /\ writes = 0
  /\ started = <<>>
  /\ done = <<>>
  /\ last = NoRun
  /\ NoPeriodic
  /\ NoGateway
  /\ NoRest
  /\ NoLinkCheck

(* periodic_publish_record(&tx, local_sphere): the stored record is read and
   a Publish job for it is sent; ahead is the jobs the channel then holds *)
PeriodicPublish ==
  /\ sent < MaxJobs
  /\ \E key_ok \in BOOLEAN :
       LET job == periodic_publish_record(sent + 1,
                    get_counterpart_record(history, key_ok))
       IN /\ job # NoJob
          /\ queue' = Append(queue, job)
          /\ sent' = sent + 1
          /\ requests' = Append(requests,
               [by |-> "publisher", job |-> job, ahead |-> queue])
  /\ UNCHANGED <<pc, current, client, made, history, unsaved, ns, writes,
                 started, done, last>>
  /\ UNCHANGED <<local_spheres, clock, publisher, resolver>>
  /\ UNCHANGED apart_vars

RepublishNext ==
  \/ SendPublish
  \/ PeriodicPublish
  \/ WorkerRecv
  \/ WorkerProcess

RepublishSpec == RepublishInit /\ [][RepublishNext]_vars

(* ------------------------ OnDemandNameResolver ------------------------ *)
\* What the one-shot channel of a ResolveImmediately job holds once the job
\* has returned, if its sender were kept alive on the paths that send nothing.
oneshot_kept(d) ==
  IF d.reply # NoReply THEN [kind |-> "Ok", value |-> d.reply]
  ELSE [kind |-> "pending", value |-> NoReply]
\* What the one-shot channel holds once the job has returned: the reply of
\* tx.send, or nothing with the sender dropped (the job, the closure that
\* took it and the sender in them are dropped on every return).
oneshot(d) ==
  IF d.reply # NoReply THEN [kind |-> "Ok", value |-> d.reply]
  ELSE [kind |-> "Err", value |-> "RecvError"]

\* rx.await of resolve for the job it sent: pending while the job is on its
\* way, an error when the job was dropped with the channel
rx_await(id) ==
  IF \E i \in 1..Len(done) : done[i].id = id
    THEN oneshot(done[CHOOSE i \in 1..Len(done) : done[i].id = id])
  ELSE IF receiver_closed(pc) THEN [kind |-> "Err", value |-> "RecvError"]
  ELSE [kind |-> "pending", value |-> NoReply]

\* the worker of one sphere and the requesters of its on-demand resolver
OnDemandInit == Init

(* OnDemandNameResolver::resolve up to rx.await: the job is sent, or the
   call returns the error of the send *)
Resolve ==
  /\ Len(requests) < MaxJobs
  /\ \E name \in Petnames :
       IF receiver_closed(pc)
         THEN /\ requests' = Append(requests,
                   [name |-> name, id |-> 0, returned |-> "Err"])
              /\ UNCHANGED <<queue, sent>>
         ELSE /\ requests' = Append(requests,
                   [name |-> name, id |-> sent + 1, returned |-> "awaits"])
              /\ queue' = Append(queue,
                   Job(sent + 1, "ResolveImmediately", NoRecord, FALSE, 0,
                       name))
              /\ sent' = sent + 1
  /\ UNCHANGED <<pc, current, client, made, history, unsaved, ns, writes,
                 started, done, last>>
  /\ UNCHANGED <<local_spheres, clock, publisher, resolver>>
  /\ UNCHANGED apart_vars

(* the task start_name_system returned is aborted, or its runtime shut
   down: the receiver is dropped with the jobs it holds *)
Abort ==
  /\ pc # "stopped"
  /\ pc' = "stopped"
  /\ queue' = <<>>
  /\ current' = NoJob
  /\ UNCHANGED <<sent, client, made, history, unsaved, ns, writes, started,
                 done, last>>
  /\ UNCHANGED <<periodic_vars, apart_vars>>

OnDemandNext ==
  \/ Resolve
  \/ ClientWrite
  \/ PeerPublish
  \/ WorkerRecv
  \/ WorkerProcess
  \/ Abort

OnDemandSpec == OnDemandInit /\ [][OnDemandNext]_vars

(* ---------------------- validating link-records ----------------------- *)
\* a token cited as a proof, known by its jwt
Proof(jwt, iss, aud, with, can, exp, signed) ==
  [jwt |-> jwt, iss |-> iss, aud |-> aud, facts |-> <<>>, nbf |-> {},
   exp |-> exp, with |-> with, can |-> can, prf |-> {}, signed |-> signed]

\* The delegations on sphere d0 a record may cite: by the sphere's key to
\* the key k1 for publish and for push, by another sphere's key, to
\* another key, with a bad signature, and expiring early.
Proofs ==
  { Proof("j1", "d0", "k1", "d0", "publish", 9, TRUE),
    Proof("j2", "d0", "k1", "d0", "push", 9, TRUE),
    Proof("j3", "d1", "k1", "d0", "publish", 9, TRUE),
    Proof("j4", "d0", "k2", "d0", "publish", 9, TRUE),
    Proof("j5", "d0", "k1", "d0", "publish", 9, FALSE),
    Proof("j6", "d0", "k1", "d0", "publish", 1, TRUE) }

\* The records for sphere d0 put to validation.
CandidateRecords ==
  { Ucan(iss, "d0", facts, nbf, exp, with, can, prf, signed) :
      iss \in {"d0", "k1"},
      facts \in {<<>>, <<"c1">>, <<"bad">>, <<"bad", "c1">>, <<"c1", "c2">>},
      nbf \in {{}, {1}, {3}}, exp \in {1, 2},
      with \in {"d0", "d1"}, can \in {"push", "publish"},
      prf \in {{}} \cup {{p} : p \in Proofs},
      signed \in BOOLEAN }

\* the store validate reads witnesses from: empty, or holding every proof
WitnessStores == {{}, {p.jwt : p \in Proofs}}

LinkInit ==
  /\ NoWorker
  /\ NoPeriodic
  /\ NoGateway
  /\ NoRest
  /\ checked \in [record : CandidateRecords, store : WitnessStores,
                  current : 1..MaxNow, validated : {"pending"},
                  publishable : {"pending"}]

(* record.validate(store) *)
Validate ==
  /\ checked.validated = "pending"
  /\ checked' = [checked EXCEPT !.validated =
       IF LinkRecord_validate(checked.record, checked.store, checked.current)
         THEN "Ok" ELSE "Err"]
  /\ UNCHANGED <<worker_vars, periodic_vars, gateway_vars, rest_vars>>

(* record.has_publishable_timeframe() *)
HasPublishableTimeframe ==
  /\ checked.publishable = "pending"
  /\ checked' = [checked EXCEPT !.publishable =
       IF LinkRecord_has_publishable_timeframe(checked.record, checked.current)
         THEN "true" ELSE "false"]
  /\ UNCHANGED <<worker_vars, periodic_vars, gateway_vars, rest_vars>>

LinkNext ==
  \/ Validate
  \/ HasPublishableTimeframe

LinkSpec == LinkInit /\ [][LinkNext]_vars

(* ------------------------- the link of a record ----------------------- *)
\* the facts a token can hold
FactKinds == {"scalar", "no_field", "number_link", "bad", "c1", "c2", "C1"}
FactLists == UNION {[1..n -> FactKinds] : n \in 0..MaxFacts}

FactsInit ==
  /\ NoWorker
  /\ NoPeriodic
  /\ NoGateway
  /\ NoRest
  /\ checked \in [facts : FactLists, link : {"pending"}]

(* record.get_link() *)
GetLink ==
  /\ checked.link = "pending"
  /\ checked' = [checked EXCEPT !.link = first_link(checked.facts, 1)]
  /\ UNCHANGED <<worker_vars, periodic_vars, gateway_vars, rest_vars>>

FactsNext == GetLink

FactsSpec == FactsInit /\ [][FactsNext]_vars

(* ------------------------ gateway authorization ----------------------- *)
\* The words of a ucan header: the jwts of two delegations, the content
\* addresses of these jwts, and a word that is no content address.
JwtWords == {"j1", "j3", "x"}
ClaimWords == {"c1", "c3", "x"}
\* Cid::try_from(cid_string) is Ok
is_cid(word) == word \in {"c1", "c3"}
\* the address write_token computes by hashing the jwt
cid_of(jwt) ==
  IF jwt = "j1" THEN "c1" ELSE IF jwt = "j3" THEN "c3" ELSE "c0"

\* a header value that is not visible ASCII
OpaqueHeader == <<"opaque">>
\* the values of a ucan header, as the words split_ascii_whitespace finds
HeaderValues ==
  {<<>>, OpaqueHeader, <<"j1">>, <<"c1", "j1", "x">>}
    \cup {<<c, j>> : c \in ClaimWords, j \in JwtWords}
RECURSIVE HeaderLists(_)
HeaderLists(n) ==
  IF n = 0 THEN {<<>>}
  ELSE HeaderLists(n - 1) \cup
       {Append(l, h) : l \in {m \in HeaderLists(n - 1) : Len(m) = n - 1},
                       h \in HeaderValues}

\* the delegation with the given jwt
ProofOf(jwt) == CHOOSE p \in Proofs : p.jwt = jwt

\* The bearer tokens presented to the gateway of sphere d0: issued by the
\* sphere's key, by a key citing a delegation of the sphere's key, by a key
\* citing a delegation of another sphere's key, by a key citing nothing,
\* with a bad signature, expiring early, and for another sphere.
BearerTokens ==
  [ b1 |-> Ucan("d0", "gw", <<>>, {}, 9, "d0", "push", {}, TRUE),
    b2 |-> Ucan("k1", "gw", <<>>, {}, 9, "d0", "publish", {ProofOf("j1")}, TRUE),
    b3 |-> Ucan("k1", "gw", <<>>, {}, 9, "d0", "publish", {ProofOf("j3")}, TRUE),
    b4 |-> Ucan("k1", "gw", <<>>, {}, 9, "d0", "push", {}, TRUE),
    b5 |-> Ucan("d0", "gw", <<>>, {}, 9, "d0", "push", {}, FALSE),
    b6 |-> Ucan("d0", "gw", <<>>, {}, 1, "d0", "push", {}, TRUE),
    b7 |-> Ucan("d0", "gw", <<>>, {}, 9, "d1", "publish", {}, TRUE) ]
\* the Authorization header: absent, not a token, or one of the tokens
Bearers == {"none", "garbage"} \cup DOMAIN BearerTokens

\* A request as from_request_parts sees it: its headers, whether the store
\* accepts the writes made for it, and what the clock reads when the chain
\* is built (now) and when the token is validated again (later).
Requests ==
  {request \in [bearer : Bearers, ucan_headers : HeaderLists(MaxHeaders),
                write_ok : BOOLEAN, now : 1..MaxNow, later : 1..MaxNow] :
     request.now <= request.later}

\* What the server gives every request: whether the extensions hold the
\* sphere context and the gateway scope.
Servers == [context_present : BOOLEAN, scope_present : BOOLEAN]

\* the jwts the store may hold from the requests served before
InitialTokens == SUBSET {"j1", "j3"}

\* the capabilities a handler asks for
RequestedCapabilities ==
  {Capability(with, can) : with \in Dids, can \in SphereActions}

Passed == 0
Extracted(status, store, accepted) ==
  [status |-> status, store |-> store, accepted |-> accepted]

\* header.to_str() is Ok
to_str_ok(header) == header # OpaqueHeader
\* value.split_ascii_whitespace().take(2).collect()
take_2(header) == SubSeq(header, 1, IF Len(header) < 2 THEN Len(header) ELSE 2)

\* a comparison that lets every claim pass
claim_matches_any(claimed_cid, actual_cid) == TRUE
\* claimed_cid != actual_cid is false
claim_matches(claimed_cid, actual_cid) == claimed_cid = actual_cid

\* The loop over the ucan headers, from header i on: the status it returns
\* with (Passed when it runs to its end), the store as the loop leaves it and
\* the jwts whose claim matched.
RECURSIVE ucan_headers_loop(_, _, _, _, _)
ucan_headers_loop(headers, i, store, accepted, write_ok) ==
  IF i > Len(headers) THEN Extracted(Passed, store, accepted)
  ELSE IF ~to_str_ok(headers[i]) THEN Extracted(400, store, accepted)
  ELSE IF Len(take_2(headers[i])) < 2 THEN Extracted(400, store, accepted)
  ELSE IF ~is_cid(take_2(headers[i])[1]) THEN Extracted(400, store, accepted)
  ELSE IF ~write_ok THEN Extracted(400, store, accepted)
  ELSE IF ~claim_matches(take_2(headers[i])[1], cid_of(take_2(headers[i])[2]))
         THEN Extracted(400, store \cup {take_2(headers[i])[2]}, accepted)
  ELSE ucan_headers_loop(headers, i + 1, store \cup {take_2(headers[i])[2]},
                         accepted \cup {take_2(headers[i])[2]}, write_ok)

\* a chain step that answers a chain that fails to verify with 401
proof_chain_unauthorized(bearer, now, later, store) ==
  IF bearer = "garbage" THEN 401
  ELSE IF ~from_ucan(BearerTokens[bearer], now, store) THEN 401
  ELSE IF ~ucan_validate(BearerTokens[bearer], later) THEN 401
  ELSE 200
\* ProofChain::try_from_token_string(bearer.token(), None, ..) against the
\* store, then proof_chain.ucan().validate(None, ..): the status answered
proof_chain(bearer, now, later, store) ==
  IF bearer = "garbage" THEN 400
  ELSE IF ~from_ucan(BearerTokens[bearer], now, store) THEN 400
  ELSE IF ~ucan_validate(BearerTokens[bearer], later) THEN 401
  ELSE 200

\* GatewayAuthority::from_request_parts: the status answered (200 for Ok),
\* the store and the accepted jwts afterwards
from_request_parts(server, request, store, accepted) ==
  IF ~server.context_present THEN Extracted(500, store, accepted)
  ELSE IF ~server.scope_present THEN Extracted(500, store, accepted)
  ELSE IF request.bearer = "none" THEN Extracted(400, store, accepted)
  ELSE LET looped == ucan_headers_loop(request.ucan_headers, 1, store,
                                       accepted, request.write_ok)
       IN IF looped.status # Passed THEN looped
          ELSE Extracted(proof_chain(request.bearer, request.now,
                                     request.later, looped.store),
                         looped.store, looped.accepted)

\* a check that takes any originator
try_authorize_any_originator(bearer, capability) ==
  IF \E capability_info \in reduce_capabilities(BearerTokens[bearer]) :
       enables(capability_info.capability, capability)
    THEN "Ok" ELSE "401"
\* GatewayAuthority::try_authorize, on the authority made of the bearer
try_authorize(bearer, capability) ==
  IF \E capability_info \in reduce_capabilities(BearerTokens[bearer]) :
       /\ Counterpart \in capability_info.originators
       /\ enables(capability_info.capability, capability)
    THEN "Ok" ELSE "401"

NoRequest ==
  [bearer |-> "none", ucan_headers |-> <<>>, write_ok |-> TRUE,
   now |-> 1, later |-> 1]

AuthInit ==
  /\ NoWorker
  /\ NoPeriodic
  /\ NoLinkCheck
  /\ NoRest
  /\ tokens \in InitialTokens
  /\ \E server \in Servers :
       exchange = [server |-> server, served |-> 0, request |-> NoRequest,
                   status |-> 0, accepted |-> tokens,
                   capability |-> Capability("d0", "push"),
                   authorized |-> "none"]

(* a request reaches a handler that extracts a GatewayAuthority *)
Request ==
  /\ exchange.served < MaxRequests
  /\ \E request \in Requests :
     \E outcome \in {from_request_parts(exchange.server, request, tokens,
                                        exchange.accepted)} :
       /\ tokens' = outcome.store
       /\ exchange' = [exchange EXCEPT !.served = @ + 1,
                                       !.request = request,
                                       !.status = outcome.status,
                                       !.accepted = outcome.accepted,
                                       !.authorized = "none"]
  /\ UNCHANGED <<worker_vars, periodic_vars, link_vars, rest_vars>>

(* the handler asks the authority for a capability *)
Authorize ==
  /\ exchange.status = 200
  /\ exchange.authorized = "none"
  /\ \E capability \in RequestedCapabilities :
       exchange' = [exchange EXCEPT
                      !.capability = capability,
                      !.authorized = try_authorize(exchange.request.bearer,
                                                   capability)]
  /\ UNCHANGED <<tokens, worker_vars, periodic_vars, link_vars, rest_vars>>

AuthNext ==
  \/ Request
  \/ Authorize

AuthSpec == AuthInit /\ [][AuthNext]_vars

(* ---------------------- link-records as text -------------------------- *)
\* A jwt: the header, the payload and the signature that the text of a
\* token holds between its dots. The payload names the proofs by reference
\* and lists the capabilities claimed.
UcanHeader == [alg |-> "EdDSA", typ |-> "JWT"]
Signature(signed) == IF signed THEN "verifying" ELSE "not_verifying"

\* Ucan::encode
Ucan_encode(u) ==
  [header |-> UcanHeader,
   payload |-> [iss |-> u.iss, aud |-> u.aud, exp |-> u.exp, nbf |-> u.nbf,
                fct |-> u.facts,
                att |-> <<[with |-> u.with, can |-> u.can]>>,
                prf |-> {p.jwt : p \in u.prf}],
   signature |-> Signature(u.signed)]

Parsed(ok, u) == [ok |-> ok, record |-> u]
NoUcan == Ucan("none", "none", <<>>, {}, 0, "none", "push", {}, FALSE)

\* Ucan::from_str
Ucan_from_str(jwt) ==
  IF jwt.header.typ # "JWT" \/ Len(jwt.payload.att) # 1
    THEN Parsed(FALSE, NoUcan)
  ELSE Parsed(TRUE,
              Ucan(jwt.payload.iss, jwt.payload.aud, jwt.payload.fct,
                   jwt.payload.nbf, jwt.payload.exp,
                   jwt.payload.att[1].with, jwt.payload.att[1].can,
                   {ProofOf(reference) : reference \in jwt.payload.prf},
                   jwt.signature = Signature(TRUE)))

\* record.encode(), through Deref<Target = Ucan>
LinkRecord_encode(u) == Ucan_encode(u)

\* a parse that loses the facts of the token
LinkRecord_from_str_without_facts(value) ==
  Parsed(Ucan_from_str(value).ok,
         [Ucan_from_str(value).record EXCEPT !.facts = <<>>])
\* impl FromStr for LinkRecord
LinkRecord_from_str(value) == Ucan_from_str(value)

\* impl TryFrom<String> for LinkRecord
LinkRecord_try_from_string(value) == Ucan_from_str(value)

\* String::into_bytes and String::from_utf8
into_bytes(text) == [utf8 |-> TRUE, text |-> text]
\* impl TryFrom<Vec<u8>> for LinkRecord
LinkRecord_try_from_vec(value) ==
  IF ~value.utf8 THEN Parsed(FALSE, NoUcan) ELSE LinkRecord_from_str(value.text)
\* impl TryFrom<&[u8]> for LinkRecord
LinkRecord_try_from_slice(value) == LinkRecord_try_from_vec(value)
\* impl TryFrom<LinkRecord> for Vec<u8>
LinkRecord_into_vec(u) == into_bytes(LinkRecord_encode(u))

\* impl Serialize for LinkRecord: the encoding, as a string
LinkRecord_serialize(u) == [string |-> LinkRecord_encode(u)]
\* impl Deserialize for LinkRecord
LinkRecord_deserialize(serialized) ==
  LinkRecord_try_from_string(serialized.string)

\* impl PartialEq for LinkRecord
LinkRecord_eq(a, b) == LinkRecord_encode(a) = LinkRecord_encode(b)

Conversions == {"from_str", "String", "Vec<u8>", "&[u8]", "serde"}

\* parsing the encoding of a record by one of the conversions
parse_encoded(via, u) ==
  IF via = "from_str" THEN LinkRecord_from_str(LinkRecord_encode(u))
  ELSE IF via = "String" THEN LinkRecord_try_from_string(LinkRecord_encode(u))
  ELSE IF via = "Vec<u8>" THEN LinkRecord_try_from_vec(LinkRecord_into_vec(u))
  ELSE IF via = "&[u8]" THEN LinkRecord_try_from_slice(LinkRecord_into_vec(u))
  ELSE LinkRecord_deserialize(LinkRecord_serialize(u))

ConvertInit ==
  /\ NoWorker
  /\ NoPeriodic
  /\ NoGateway
  /\ NoRest
  /\ checked \in [record : CandidateRecords, via : {"none"},
                  parsed : {Parsed(FALSE, NoUcan)}]

(* a record is encoded and the encoding parsed *)
Convert ==
  /\ checked.via = "none"
  /\ \E via \in Conversions :
       checked' = [checked EXCEPT !.via = via,
                                  !.parsed = parse_encoded(via, checked.record)]
  /\ UNCHANGED <<worker_vars, periodic_vars, gateway_vars, rest_vars>>

ConvertNext == Convert

ConvertSpec == ConvertInit /\ [][ConvertNext]_vars

(* --------------------------- revocations ------------------------------ *)
\* Key material, named by its DID, and what it signs: a signature is made
\* by a key over a payload, and verifies under that key over that payload.
KeyMaterials == {"d0", "d1", "k1"}
get_did(key) == key
sign(key, payload) == [by |-> key, over |-> payload]
key_verify(key, payload, signature) == signature = sign(key, payload)

\* Content addresses in text: c1 and c2 are the canonical forms, C1 is
\* another text of the address c1, and x is no address.
CidStrings == {"c1", "c2", "C1", "x"}
Cid_to_string(cid) == cid
TokenAddresses == {"c1", "c2"}

\* base64_encode, and base64_decode which fails on other text
base64_encode(bytes) == [base64 |-> TRUE, of |-> bytes]
base64_decodes(text) == text.base64
base64_decode(text) == text.of

\* RevocationIpld::make_challenge_payload
make_challenge_payload(cid) == <<"REVOKE:", Cid_to_string(cid)>>

\* RevocationIpld::revoke
RevocationIpld_revoke(cid, issuer) ==
  [iss |-> get_did(issuer),
   revoke |-> Cid_to_string(cid),
   challenge |-> base64_encode(sign(issuer, make_challenge_payload(cid)))]

\* a verification that trusts the key that made the challenge
RevocationIpld_verify_any_key(record, claimed_issuer) ==
  /\ Cid_parses(record.revoke)
  /\ base64_decodes(record.challenge)
  /\ \E key \in KeyMaterials :
       key_verify(key, make_challenge_payload(Cid_try_from(record.revoke)),
                  base64_decode(record.challenge))
\* RevocationIpld::verify: Ok
RevocationIpld_verify(record, claimed_issuer) ==
  /\ Cid_parses(record.revoke)
  /\ base64_decodes(record.challenge)
  /\ key_verify(claimed_issuer,
                make_challenge_payload(Cid_try_from(record.revoke)),
                base64_decode(record.challenge))

\* The records read from a sphere's revocations map: any issuer, any text
\* as address, and as challenge a signature by any key over a challenge or
\* over something else, or text that is not base64.
Challenges ==
  {base64_encode(sign(key, <<prefix, cid>>)) :
     key \in KeyMaterials, prefix \in {"REVOKE:", ""}, cid \in TokenAddresses}
    \cup {[base64 |-> FALSE, of |-> sign("d0", <<"REVOKE:", "c1">>)]}
StoredRevocations ==
  [iss : KeyMaterials, revoke : CidStrings, challenge : Challenges]

NoRevocationRecord ==
  [iss |-> "none", revoke |-> "x",
   challenge |-> [base64 |-> FALSE, of |-> sign("none", <<"", "x">>)]]

RevokeInit ==
  /\ NoWorker
  /\ NoPeriodic
  /\ NoGateway
  /\ NoLinkCheck
  /\ NoVerification
  /\ NoReplication
  /\ NoChannel
  /\ revocation = [record |-> NoRevocationRecord, made_by |-> "none",
                   claimed_issuer |-> "none", verified |-> "none"]

RevokeFrame ==
  UNCHANGED <<worker_vars, periodic_vars, gateway_vars, link_vars,
              verification, replication, channel>>

(* RevocationIpld::revoke(cid, issuer) *)
Revoke ==
  /\ revocation.verified = "none"
  /\ \E cid \in TokenAddresses, issuer \in KeyMaterials :
       revocation' = [revocation EXCEPT
                        !.record = RevocationIpld_revoke(cid, issuer),
                        !.made_by = issuer,
                        !.verified = "pending"]
  /\ RevokeFrame

(* a revocation record is read from the revocations map *)
ReadRevocation ==
  /\ revocation.verified = "none"
  /\ \E record \in StoredRevocations :
       revocation' = [revocation EXCEPT !.record = record,
                                        !.verified = "pending"]
  /\ RevokeFrame

(* record.verify(claimed_issuer) *)
VerifyRevocation ==
  /\ revocation.verified = "pending"
  /\ \E claimed_issuer \in KeyMaterials :
       revocation' = [revocation EXCEPT
                        !.claimed_issuer = claimed_issuer,
                        !.verified =
                          IF RevocationIpld_verify(revocation.record, claimed_issuer)
                            THEN "Ok" ELSE "Err"]
  /\ RevokeFrame

RevokeNext ==
  \/ Revoke
  \/ ReadRevocation
  \/ VerifyRevocation

RevokeSpec == RevokeInit /\ [][RevokeNext]_vars

(* ----------------------- verifying sphere memos ----------------------- *)
\* The tokens a memo's proof header may name, on the sphere d0: a push
\* delegation by the sphere's key to k1, a redelegation of it by k1 to k2, a
\* publish delegation, a push delegation of another sphere, a token by a key
\* that holds nothing, an expiring one and one with a bad signature.
MemoProofs ==
  [ t1 |-> Ucan("d0", "k1", <<>>, {}, 9, "d0", "push", {}, TRUE),
    t2 |-> Ucan("k1", "k2", <<>>, {}, 9, "d0", "push", {ProofOf("j2")}, TRUE),
    t3 |-> Ucan("d0", "k1", <<>>, {}, 9, "d0", "publish", {}, TRUE),
    t4 |-> Ucan("d1", "k1", <<>>, {}, 9, "d1", "push", {}, TRUE),
    t5 |-> Ucan("k2", "k1", <<>>, {}, 9, "d0", "push", {}, TRUE),
    t6 |-> Ucan("d0", "k1", <<>>, {}, 1, "d0", "push", {}, TRUE),
    t7 |-> Ucan("d0", "k1", <<>>, {}, 9, "d0", "push", {}, FALSE) ]
\* the proof header: absent, no content address, the address of a token
\* the store does not hold, or the address of one of the tokens
ProofHeaders == {"none", "unparsable", "missing"} \cup DOMAIN MemoProofs

\* the keys that sign memos
Signers == {"d0", "d1", "k1", "k2"}
\* the signature header: absent, or the base64 text of a signature by some
\* key over the memo's body address or over another address, or other text
SignatureHeaders ==
  {[present |-> FALSE, text |-> base64_encode(sign("d0", "body"))]}
    \cup {[present |-> TRUE, text |-> base64_encode(sign(key, over))] :
            key \in Signers, over \in {"body", "other_body"}}
    \cup {[present |-> TRUE,
           text |-> [base64 |-> FALSE, of |-> sign("d0", "body")]]}

\* A memo in its store: whether the memo and its body load, its content
\* type, its headers, and the identity of the sphere in its body; with the
\* witness jwts the store holds and what the clock reads.
Memos ==
  [memo_loads : BOOLEAN, body_loads : BOOLEAN,
   content_type : {"sphere", "other"},
   signature : SignatureHeaders, proof : ProofHeaders,
   identity : {"d0"}, witnesses : {{}, {"j2"}}, now : 1..MaxNow]

\* the capability verify_sphere_cid asks of the chain
memo_desired_capability(identity) == Capability(identity, "push")

\* the branch of verify_sphere_cid for a memo with a proof header
verify_with_proof(memo) ==
  /\ memo.proof \in DOMAIN MemoProofs
  /\ key_verify(MemoProofs[memo.proof].aud, "body",
                base64_decode(memo.signature.text))
  /\ from_ucan(MemoProofs[memo.proof], memo.now, memo.witnesses)
  /\ \E capability_info \in reduce_capabilities(MemoProofs[memo.proof]) :
       /\ memo.identity \in capability_info.originators
       /\ enables(capability_info.capability,
                  memo_desired_capability(memo.identity))

\* the branch for a memo without proof header
verify_as_identity(memo) ==
  key_verify(memo.identity, "body", base64_decode(memo.signature.text))

\* verify_sphere_cid: Ok
verify_sphere_cid(memo) ==
  /\ memo.memo_loads
  /\ memo.content_type = "sphere"
  /\ memo.signature.present
  /\ base64_decodes(memo.signature.text)
  /\ memo.body_loads
  /\ IF memo.proof # "none" THEN verify_with_proof(memo)
     ELSE verify_as_identity(memo)

VerifyInit ==
  /\ NoWorker
  /\ NoPeriodic
  /\ NoGateway
  /\ NoLinkCheck
  /\ NoRevocation
  /\ NoReplication
  /\ NoChannel
  /\ \E memo \in Memos : verification = [memo |-> memo, verified |-> "pending"]

(* verify_sphere_cid(cid, store, did_parser) *)
VerifySphereCid ==
  /\ verification.verified = "pending"
  /\ verification' = [verification EXCEPT !.verified =
                        IF verify_sphere_cid(verification.memo)
                          THEN "Ok" ELSE "Err"]
  /\ UNCHANGED <<worker_vars, periodic_vars, gateway_vars, link_vars,
                 revocation, replication, channel>>

VerifyNext == VerifySphereCid

VerifySpec == VerifyInit /\ [][VerifyNext]_vars

(* -------------------------- streaming blocks -------------------------- *)
\* the capacity of the tap's channel
TAP_CAPACITY == 64

\* The blocks of a revision, by address. A sphere's memo leads to its body,
\* the body to the authority and the address book, and these to the four
\* versioned maps; a map has a changelog and a tree; the content map links
\* memos and the identities map link-record tokens. Another memo leads to
\* the chunks of its body.
Slugs == <<"s1", "s2">>
Walkers == {"identities", "content", "delegations", "revocations"}
MainLoads ==
  <<"sphere", "authority", "address_book", "content", "identities",
    "delegations", "revocations">>
Changelog ==
  [identities |-> "identities_changelog", content |-> "content_changelog",
   delegations |-> "delegations_changelog",
   revocations |-> "revocations_changelog"]
Hamt ==
  [identities |-> "identities_hamt", content |-> "content_hamt",
   delegations |-> "delegations_hamt", revocations |-> "revocations_hamt"]
ContentMemos == {"m1", "m2"}
\* the body a content memo links
Body == [m1 |-> "body1", m2 |-> "body2"]
RecordTokens == {"tok1", "tok2"}
Chunks == <<"chunk1", "chunk2">>
Blocks ==
  {"memo"} \cup {MainLoads[i] : i \in 1..Len(MainLoads)}
    \cup {Changelog[w] : w \in Walkers} \cup {Hamt[w] : w \in Walkers}
    \cup ContentMemos \cup {Body[m] : m \in ContentMemos} \cup RecordTokens
    \cup {Chunks[i] : i \in 1..Len(Chunks)}

\* A revision in its store: the memo's content type, the memo each slug
\* links, the link-record each petname has adopted, how many chunks the
\* body of a memo that is no sphere has, and the block whose read fails.
Revision(content_type, links, records, chunks, broken) ==
  [content_type |-> content_type, links |-> links, records |-> records,
   chunks |-> chunks, broken |-> broken]
SphereRevisions ==
  {Revision("sphere", links, records, 1, "none") :
     links \in [1..Len(Slugs) -> ContentMemos],
     records \in [Petnames -> RecordTokens \cup {"none"}]}
PlainSphere ==
  Revision("sphere", [i \in 1..Len(Slugs) |-> IF i = 1 THEN "m1" ELSE "m2"],
           [n \in Petnames |-> IF n = "a" THEN "tok1" ELSE "none"], 1, "none")
BrokenRevisions ==
  {[PlainSphere EXCEPT !.broken = block] :
     block \in Blocks \ ({"m2", "tok2"} \cup {Body[m] : m \in ContentMemos}
                           \cup {Chunks[i] : i \in 1..Len(Chunks)})}
OtherRevisions ==
  {[PlainSphere EXCEPT !.content_type = content_type, !.chunks = chunks,
                       !.broken = broken] :
     content_type \in {"bytes", "none"}, chunks \in 1..Len(Chunks),
     broken \in {"none", "memo", "chunk1", "chunk2"}}
Revisions == SphereRevisions \cup BrokenRevisions \cup OtherRevisions

\* a read through the tap
Get(cid, fatal) == [cid |-> cid, fatal |-> fatal]

\* the link-records adopted, in the order of the identities map
adopted_records(revision) ==
  SelectSeq([i \in 1..Len(NameOrder) |-> revision.records[NameOrder[i]]],
            LAMBDA token : token # "none")

\* the reads of walk_versioned_map: the changelog and the tree
walk_versioned_map(walker) ==
  <<Get(Changelog[walker], TRUE), Get(Hamt[walker], TRUE)>>

\* a walk that calls nothing back
walker_gets_maps_only(revision, walker) == <<walk_versioned_map(walker)>>
\* The steps of a walker task, each with its reads: walk_versioned_map,
\* then for walk_versioned_map_and a call back for each entry, reading the
\* identity's link-record (identity.link_record, which answers None on an
\* error) or the content's memo.
walker_gets(revision, walker) ==
  <<walk_versioned_map(walker)>> \o
    (IF walker = "identities"
       THEN [i \in 1..Len(adopted_records(revision)) |->
               <<Get(adopted_records(revision)[i], FALSE)>>]
     ELSE IF walker = "content"
       THEN [i \in 1..Len(Slugs) |-> <<Get(revision.links[i], TRUE)>>]
     ELSE <<>>)

\* a step's reads fail: one that must succeed is of the broken block
step_fails(gets, broken) ==
  \E i \in 1..Len(gets) : gets[i].cid = broken /\ gets[i].fatal
\* the blocks a step reads, up to the read that fails
RECURSIVE step_reads(_, _)
step_reads(gets, broken) ==
  IF gets = <<>> THEN <<>>
  ELSE IF Head(gets).cid = broken
    THEN IF Head(gets).fatal THEN <<>> ELSE step_reads(Tail(gets), broken)
  ELSE <<Head(gets).cid>> \o step_reads(Tail(gets), broken)

NoBlocks == [b \in Blocks |-> 0]
\* one more of the block
plus(bag, cid) == [bag EXCEPT ![cid] = @ + 1]
RECURSIVE plus_all(_, _)
plus_all(bag, cids) ==
  IF cids = <<>> THEN bag ELSE plus_all(plus(bag, Head(cids)), Tail(cids))

\* the main task's reads of a sphere before it spawns the walkers: those
\* that succeed, in order
RECURSIVE loaded_before(_, _, _)
loaded_before(loads, i, broken) ==
  IF i > Len(loads) \/ loads[i] = broken THEN <<>>
  ELSE <<loads[i]>> \o loaded_before(loads, i + 1, broken)

\* what car_stream makes of the items of block_stream: a frame for each
\* block, after the header, and an I/O error for an Err
car_of(car, cids, item) ==
  [header |-> car.header \/ cids # <<>>,
   frames |-> plus_all(car.frames, cids),
   last |-> IF item = "Err" THEN "BrokenPipe" ELSE item]

StreamInit ==
  /\ NoWorker
  /\ NoPeriodic
  /\ NoGateway
  /\ NoLinkCheck
  /\ NoRevocation
  /\ NoVerification
  /\ NoChannel
  /\ \E revision \in Revisions :
       replication =
         [revision |-> revision, pc |-> "start", chunk |-> 1,
          tasks |-> [w \in Walkers |-> [pos |-> 1, result |-> "idle"]],
          tap |-> <<>>, yielded |-> NoBlocks, last |-> "open",
          car |-> [header |-> FALSE, frames |-> NoBlocks, last |-> "open"]]

StreamFrame ==
  UNCHANGED <<worker_vars, periodic_vars, gateway_vars, link_vars,
              revocation, verification, channel>>

\* the stream ends, with an error item or without
ended(r, item) ==
  [r EXCEPT !.pc = "ended", !.last = item,
            !.car = car_of(r.car, <<>>, item)]

\* the stream yields blocks
yield(r, cids) ==
  [r EXCEPT !.yielded = plus_all(r.yielded, cids),
            !.car = car_of(r.car, cids, "open")]

(* block_stream up to its first wait: the memo is loaded and, for a
   sphere, its parts; then the walkers are spawned *)
Start ==
  /\ replication.pc = "start"
  /\ \E r \in {replication} :
       replication' =
         IF r.revision.broken = "memo" THEN ended(r, "Err")
         ELSE IF r.revision.content_type = "none"
           THEN ended([r EXCEPT !.tap = <<"memo">>], "end")
         ELSE IF r.revision.content_type # "sphere"
           THEN [r EXCEPT !.tap = <<"memo">>, !.pc = "decode"]
         ELSE IF Len(loaded_before(MainLoads, 1, r.revision.broken))
                   < Len(MainLoads)
           THEN ended([r EXCEPT !.tap = <<"memo">> \o
                         loaded_before(MainLoads, 1, r.revision.broken)],
                      "Err")
         ELSE [r EXCEPT !.tap = <<"memo">> \o MainLoads, !.pc = "recv",
                        !.tasks = [w \in Walkers |->
                                     [pos |-> 1, result |-> "running"]]]
  /\ StreamFrame

\* the result of a walker after its step at pos
walked(revision, walker, pos) ==
  IF step_fails(walker_gets(revision, walker)[pos], revision.broken)
    THEN [pos |-> pos, result |-> "Err"]
  ELSE IF pos = Len(walker_gets(revision, walker))
    THEN [pos |-> pos + 1, result |-> "Ok"]
  ELSE [pos |-> pos + 1, result |-> "running"]

(* a walker task takes its next step, reading through the tap *)
WalkerGet(walker) ==
  /\ replication.pc = "recv"
  /\ replication.tasks[walker].result = "running"
  /\ Len(replication.tap) < TAP_CAPACITY
  /\ \E r \in {replication} :
       \E gets \in {walker_gets(r.revision, walker)[r.tasks[walker].pos]} :
         replication' =
           [r EXCEPT !.tasks[walker] =
                        walked(r.revision, walker, r.tasks[walker].pos),
                     !.tap = @ \o step_reads(gets, r.revision.broken)]
  /\ StreamFrame

(* rx.recv() answers a block, which the stream yields *)
Recv ==
  /\ replication.pc = "recv"
  /\ replication.tap # <<>>
  /\ replication' =
       [yield(replication, <<Head(replication.tap)>>)
          EXCEPT !.tap = Tail(replication.tap)]
  /\ StreamFrame

\* a main task that keeps a handle of the tapped store through the loop
main_handles_kept(at) ==
  IF at \in {"start", "recv"} THEN {"store"} ELSE {}
\* the handles of the tapped store the main task holds: the sphere and
\* its parts are dropped before the receive loop
main_handles(at) ==
  IF at = "start" THEN {"sphere", "authority", "address_book", "store"}
  ELSE {}
\* the senders of the tap's channel that are alive: the main task's
\* handles, and the map and the store each running walker holds
tap_senders(r) ==
  main_handles(r.pc) \cup {w \in Walkers : r.tasks[w].result = "running"}

\* a join that does not look at the results
join_ignoring_results(tasks) == "end"
\* the results of the four tasks, after tokio::join!
join(tasks) ==
  IF \E w \in Walkers : tasks[w].result = "Err" THEN "Err" ELSE "end"

(* rx.recv() answers None: every walker is done and the results are read *)
Join ==
  /\ replication.pc = "recv"
  /\ replication.tap = <<>>
  /\ tap_senders(replication) = {}
  /\ replication' = ended(replication, join(replication.tasks))
  /\ StreamFrame

(* the body of a memo that is no sphere: a chunk is read, and the blocks
   the tap holds are yielded *)
Decode ==
  /\ replication.pc = "decode"
  /\ \E r \in {replication} :
       replication' =
         IF r.chunk > r.revision.chunks THEN ended(r, "end")
         ELSE IF Chunks[r.chunk] = r.revision.broken THEN ended(r, "Err")
         ELSE [yield(r, Append(r.tap, Chunks[r.chunk]))
                 EXCEPT !.tap = <<>>, !.chunk = r.chunk + 1]
  /\ StreamFrame

\* The reads of a fresh reader of the archive: it opens the sphere, looks up
\* every slug and every petname, retrieves the link-record of each petname
\* that has adopted one, and walks the delegations and the revocations.
reader_gets(revision) ==
  <<"memo", "sphere", "content", Hamt["content"], "address_book",
    "identities", Hamt["identities"]>> \o adopted_records(revision) \o
  <<"authority", "delegations", "revocations",
    Changelog["delegations"], Hamt["delegations"],
    Changelog["revocations"], Hamt["revocations"]>>

\* the store a complete archive is loaded into: a block for each frame
loaded(car) ==
  IF car.header /\ car.last = "end"
    THEN {b \in Blocks : car.frames[b] > 0}
  ELSE {}

StreamNext ==
  \/ Start
  \/ \E walker \in Walkers : WalkerGet(walker)
  \/ Recv
  \/ Join
  \/ Decode

StreamSpec == StreamInit /\ [][StreamNext]_vars

(* ------------------------ the message channel ------------------------- *)
\* the requests and the responses of the channel's test
ChannelRequests == {"Ping", "SetFlag", "Throw"}
Response(kind, value) == [kind |-> kind, value |-> value]
Responses ==
  {Response("Ok", "Pong"), Response("Ok", "GenericResult"),
   Response("Err", "thrown!")}
NoResponse == Response("none", "none")
RecvError == Response("ChannelError", "RecvError")

\* A call of the client: how it was made, its request, the one-shot
\* channel made for it (what it holds, and its receiver: awaited by the
\* caller, dropped, or done), what the caller has received, and what
\* respond was given and returned.
Call(mode, request, rx) ==
  [mode |-> mode, request |-> request, slot |-> NoResponse, rx |-> rx,
   received |-> NoResponse, response |-> NoResponse, respond |-> "not called"]

\* message_channel(): a client and a processor, bound; pulled is the
\* messages pull_message has returned, in that order
message_channel ==
  [processor |-> "open", queue |-> <<>>, message |-> 0, calls |-> <<>>,
   pulled |-> <<>>]

\* send_request_impl: a one-shot channel is made, and the message with its
\* sender is sent to the processor; the receiver is for the caller
send_request_impl(ch, mode, request, rx) ==
  IF ch.processor = "closed"
    THEN [ch EXCEPT !.calls = Append(@, [Call(mode, request, "dropped")
                                  EXCEPT !.received =
                                    Response("ChannelError", "SendError")])]
  ELSE [ch EXCEPT !.calls = Append(@, Call(mode, request, rx)),
                  !.queue = Append(@, Len(ch.calls) + 1)]

\* a one-way send whose receiver is kept
send_request_keeping_receiver(ch, request) ==
  send_request_impl(ch, "one-way", request, "awaited")
\* send_request: the receiver is dropped at once
send_request(ch, request) ==
  send_request_impl(ch, "one-way", request, "dropped")

\* send_request_async up to rx.await
send_request_async(ch, request) ==
  send_request_impl(ch, "async", request, "awaited")

\* Message::respond: the one-shot sender sends, which succeeds while the
\* receiver is there
respond(ch, response) ==
  LET call == ch.calls[ch.message] IN
    [ch EXCEPT !.message = 0,
               !.calls[ch.message] =
                 [call EXCEPT !.response = response,
                              !.respond = IF call.rx = "awaited" THEN "true"
                                          ELSE "false",
                              !.slot = IF call.rx = "awaited" THEN response
                                       ELSE NoResponse]]

\* a message is dropped with its sender: a caller awaiting it gets an error
dropped(call) ==
  IF call.rx = "awaited" /\ call.slot = NoResponse
    THEN [call EXCEPT !.rx = "done", !.received = RecvError]
  ELSE call

\* a pull that returns the message sent last
pull_message_newest(ch) ==
  LET n == Len(ch.queue) IN
    [ch EXCEPT !.message = ch.queue[n],
               !.queue = SubSeq(ch.queue, 1, n - 1),
               !.pulled = Append(@, ch.queue[n])]
\* pull_message: rx.recv() of the unbounded channel, the oldest message
pull_message(ch) ==
  [ch EXCEPT !.message = Head(ch.queue),
             !.queue = Tail(ch.queue),
             !.pulled = Append(@, Head(ch.queue))]

ChannelInit ==
  /\ NoWorker
  /\ NoPeriodic
  /\ NoGateway
  /\ NoLinkCheck
  /\ NoRevocation
  /\ NoVerification
  /\ NoReplication
  /\ channel = message_channel

ChannelFrame ==
  UNCHANGED <<worker_vars, periodic_vars, gateway_vars, link_vars,
              revocation, verification, replication>>

(* client.send_request(request) *)
SendRequest ==
  /\ channel.processor # "none"
  /\ Len(channel.calls) < MaxCalls
  /\ \E request \in ChannelRequests :
       channel' = send_request(channel, request)
  /\ ChannelFrame

(* client.send_request_async(request), up to its wait *)
SendRequestAsync ==
  /\ channel.processor # "none"
  /\ Len(channel.calls) < MaxCalls
  /\ \E request \in ChannelRequests :
       channel' = send_request_async(channel, request)
  /\ ChannelFrame

(* rx.await of send_request_async answers *)
Await ==
  /\ channel.processor # "none"
  /\ \E i \in 1..Len(channel.calls) :
       /\ channel.calls[i].rx = "awaited"
       /\ channel.calls[i].mode = "async"
       /\ channel.calls[i].slot # NoResponse
       /\ channel' =
            [channel EXCEPT !.calls[i] =
               [@ EXCEPT !.rx = "done", !.received = channel.calls[i].slot,
                         !.slot = NoResponse]]
  /\ ChannelFrame

(* processor.pull_message() answers a message *)
PullMessage ==
  /\ channel.processor = "open"
  /\ channel.message = 0
  /\ channel.queue # <<>>
  /\ channel' = pull_message(channel)
  /\ ChannelFrame

(* the processor answers the message it holds: m.respond(response) *)
Respond ==
  /\ channel.processor = "open"
  /\ channel.message # 0
  /\ \E response \in Responses : channel' = respond(channel, response)
  /\ ChannelFrame

(* the processor lets go of the message it holds without an answer *)
DropMessage ==
  /\ channel.processor = "open"
  /\ channel.message # 0
  /\ channel' = [channel EXCEPT !.message = 0,
                                !.calls[channel.message] = dropped(@)]
  /\ ChannelFrame

(* the processor is dropped, and the messages queued with it *)
DropProcessor ==
  /\ channel.processor = "open"
  /\ channel' =
       [channel EXCEPT
          !.processor = "closed", !.queue = <<>>, !.message = 0,
          !.calls = [i \in 1..Len(channel.calls) |->
                       IF i = channel.message
                          \/ \E j \in 1..Len(channel.queue) :
                               channel.queue[j] = i
                         THEN dropped(channel.calls[i])
                       ELSE channel.calls[i]]]
  /\ ChannelFrame

ChannelNext ==
  \/ SendRequest
  \/ SendRequestAsync
  \/ Await
  \/ PullMessage
  \/ Respond
  \/ DropMessage
  \/ DropProcessor

ChannelSpec == ChannelInit /\ [][ChannelNext]_vars

(* ------------------------------- claims ------------------------------- *)
LastIs(kind) == last.ran /\ last.job.kind = kind

\* C1: a Publish job with expiry enforcement whose record has no publishable
\* timeframe at the time of the job returns an error and passes nothing to
\* resolver.publish; with a record inside its timeframe the job calls
\* resolver.publish exactly once, with that record, and returns Ok when that
\* call succeeds.
C1_PublishEnforcesExpiry ==
  (LastIs("Publish") /\ last.job.temporary_validate_expiry) =>
    IF has_publishable_timeframe(last.job.record, last.now)
      THEN /\ last.out.published = <<last.job.record>>
           /\ last.out.ok = ~last.out.publish_failed
      ELSE /\ ~last.out.ok
           /\ last.out.published = <<>>

\* an enforcing Publish job was run on a record outside its timeframe and
\* was rejected, after another enforcing Publish job had published
C1_Witness ==
  /\ LastIs("Publish") /\ last.job.temporary_validate_expiry
  /\ ~has_publishable_timeframe(last.job.record, last.now)
  /\ ~last.out.ok /\ last.out.published = <<>>
  /\ Len(done) = 2 /\ done[1].kind = "Publish" /\ done[1].ok

\* C2: the worker hands jobs to process_job in exactly the order they were
\* sent, one at a time: a job starts only when every job sent before it has
\* finished, so jobs also finish in the order sent (a ResolveImmediately sent
\* after a ResolveAll is answered after it) and no two jobs overlap.
C2_FifoOneInFlight ==
  /\ \A i \in 1..Len(started) : started[i] = i
  /\ \A i \in 1..Len(done) : done[i].id = i
  /\ Len(started) = Len(done) + (IF pc = "process" THEN 1 ELSE 0)
  /\ pc = "process" => current.id = Len(done) + 1
  /\ \A i \in 1..Len(queue) : queue[i].id = Len(started) + i

\* a ResolveImmediately waited in the channel behind a ResolveAll and was
\* answered after it
C2_Witness ==
  /\ Len(done) = 2
  /\ done[1].kind = "ResolveAll" /\ done[2].kind = "ResolveImmediately"
  /\ done[2].reply # NoReply

\* C3: a failing job never stops the worker: whatever the jobs processed
\* so far returned, the loop has not left, no job sent was dropped (each is
\* finished, in flight or waiting in the channel), and a waiting job can be
\* received as soon as the job in flight has finished.
C3_FailingJobDoesNotStopWorker ==
  /\ pc \in {"recv", "process"}
  /\ sent = Len(done) + Len(queue) + (IF pc = "process" THEN 1 ELSE 0)
  /\ (pc = "recv" /\ queue # <<>>) => ENABLED WorkerRecv

\* a job was processed after an earlier job had returned an error
C3_Witness ==
  /\ Len(done) = 2
  /\ done[1].ran /\ ~done[1].ok
  /\ done[2].ran /\ done[2].ok
  /\ pc = "recv"

\* C4 as stated: the client is constructed only when none is held, a job
\* that follows a successful job runs with the same client, and a job that
\* follows a job in which resolver.publish or resolver.resolve failed runs
\* with a freshly constructed client.
C4_ResetAfterAnyResolverFailure ==
  /\ made = Cardinality({i \in 1..Len(done) : done[i].fresh})
  /\ \A i \in 2..Len(done) :
       /\ (done[i].ran /\ done[i - 1].ran /\ done[i - 1].ok)
            => (~done[i].fresh /\ done[i].client = done[i - 1].client)
       /\ (done[i].ran /\ (done[i - 1].publish_failed \/ done[i - 1].resolve_failed))
            => done[i].fresh

\* C5: a resolve job adopts a record only if it is a valid link-record.
C5_AdoptsOnlyValidRecords ==
  (LastIs("ResolveAll") \/ LastIs("ResolveSince") \/ LastIs("ResolveImmediately")) =>
    \A i \in 1..Len(last.out.adopted) : validate(last.out.adopted[i][2])

\* The newest operation on petname k in the changelogs of revisions
\* since+1..n, or one with op "none" when no revision of the range names k.
RECURSIVE newest_op(_, _, _, _, _)
newest_op(hist, n, since, k, kinds) ==
  IF n <= since THEN [op |-> "none", key |-> k, value |-> NoIdentity]
  ELSE LET at == {i \in 1..Len(hist[n].changes) :
                    hist[n].changes[i].key = k /\ hist[n].changes[i].op \in kinds}
       IN IF at # {}
            THEN hist[n].changes[CHOOSE i \in at : \A j \in at : j <= i]
            ELSE newest_op(hist, n - 1, since, k, kinds)

\* the range since..HEAD the last ResolveSince job walked
NewestOp(k) ==
  newest_op(history, last.head_before, last.job.since, k, {"Add", "Remove"})
NewestAdd(k) ==
  newest_op(history, last.head_before, last.job.since, k, {"Add"})
OlderRemove(k) ==
  \E i \in (last.job.since + 1)..last.head_before :
    \E j \in (i + 1)..last.head_before :
      /\ \E o \in 1..Len(history[i].changes) : history[i].changes[o] = Remove(k)
      /\ \E o \in 1..Len(history[j].changes) :
           history[j].changes[o].key = k /\ history[j].changes[o].op = "Add"
StreamNames(stream) == {stream[i][1] : i \in 1..Len(stream)}
AdoptedNames(adopted) == {adopted[i][1] : i \in 1..Len(adopted)}

\* C6: ResolveSince hands no petname to resolution whose most recent
\* operation in since..HEAD is a Remove, and adopts nothing for it.
C6_RemovedNameNotResolved ==
  LastIs("ResolveSince") =>
    \A k \in Petnames :
      NewestOp(k).op = "Remove" =>
        /\ k \notin StreamNames(last.out.stream)
        /\ k \notin AdoptedNames(last.out.adopted)

\* C7: the identity ResolveSince resolves for a petname is the one of the
\* newest Add of that petname in since..HEAD.
C7_NewestAddIsResolved ==
  LastIs("ResolveSince") =>
    \A i \in 1..Len(last.out.stream) :
      last.out.stream[i][2] = NewestAdd(last.out.stream[i][1]).value

\* C8: a petname removed in an older revision of since..HEAD and added again
\* in a newer one is resolved, with the identity of that newer Add.
C8_ReAddedNameIsResolved ==
  LastIs("ResolveSince") =>
    \A k \in Petnames :
      (OlderRemove(k) /\ NewestOp(k).op = "Add") =>
        \E i \in 1..Len(last.out.stream) :
          last.out.stream[i] = <<k, NewestOp(k).value>>

LinkOrNone(r) == IF get_link(r) = NoLink THEN ReplyNone ELSE get_link(r)

\* C10: ResolveImmediately replies None without calling the resolver when the
\* name is absent from the address book at the latest version; otherwise it
\* resolves that one name, adopts the record exactly when the resolver gave
\* one that differs from the last known one, and replies with what
\* resolve_petname yields on the context afterwards, which is the link of
\* the record just adopted.
C10_ResolveImmediately ==
  LastIs("ResolveImmediately") =>
    LET name == last.job.name
        before == book_at(history, last.head_before)[name]
        out == last.out
        fetched == IF out.resolve_failed THEN NoRecord ELSE out.ns[before.did]
    IN
    IF before = NoIdentity
      THEN /\ out.ok /\ out.reply = ReplyNone
           /\ out.resolved = <<>> /\ out.adopted = <<>> /\ out.saved = 0
      ELSE /\ out.ok
           /\ out.stream = << <<name, before>> >>
           /\ out.resolved = <<before.did>>
           /\ out.reply = resolve_petname(out.history, name)
           /\ IF fetched # NoRecord /\ fetched # before.link_record
                THEN /\ out.adopted = << <<name, fetched>> >>
                     /\ out.reply = LinkOrNone(fetched)
                     /\ out.saved = 1
                ELSE out.adopted = <<>>

\* a ResolveImmediately job adopted a changed record and replied its link
C10_Witness ==
  /\ LastIs("ResolveImmediately")
  /\ Len(last.out.adopted) = 1
  /\ last.out.reply = get_link(last.out.adopted[1][2])
  /\ book_at(history, last.head_before)[last.job.name].link_record # NoRecord

\* C14: no job leaves a partial write: whenever the worker is between jobs,
\* the shared sphere context holds no uncommitted change (which the next
\* job's save would commit).
C14_NoPartialWrite ==
  pc = "recv" => ~has_unsaved_changes(unsaved)

(* --------------------- claims on the periodic tasks ------------------- *)
Visits(by) == SelectSeq(requests, LAMBDA e : e.by = by)
Served == 1..Len(local_spheres)
\* the jobs of a log that were put on the channel
Queued(log) == {log[i].job.id : i \in {j \in 1..Len(log) : log[j].job # NoJob}}
\* the rounds the publisher has finished: round k is the one at k * 300 s
RoundsDone ==
  {k \in 0..(clock \div PERIODIC_PUBLISH_INTERVAL_SECONDS) :
     IF publisher.pc = "sleep"
       THEN publisher.wake > k * PERIODIC_PUBLISH_INTERVAL_SECONDS
       ELSE clock > k * PERIODIC_PUBLISH_INTERVAL_SECONDS}

\* C11: the publisher's first round is at start, before any sleep, and its
\* rounds are 300 s apart; in a round every served sphere is visited once:
\* a sphere with a stored counterpart record (that could be read) gets one
\* Publish job with that record and temporary_validate_expiry = false, put
\* on the channel, a sphere without gets none; and such a job, once run,
\* passes the record to resolver.publish whatever the time is.
C11_PeriodicPublisher ==
  LET v == Visits("publisher") IN
  /\ \A i \in 1..Len(v) :
       LET stored == read(local_spheres[v[i].context].history, v[i].head) IN
       /\ v[i].at % PERIODIC_PUBLISH_INTERVAL_SECONDS = 0
       /\ IF v[i].found /\ stored # NoRecord
            THEN /\ v[i].job.kind = "Publish"
                 /\ v[i].job.record = stored
                 /\ ~v[i].job.temporary_validate_expiry
            ELSE v[i].job = NoJob
  /\ \A k \in RoundsDone : \A c \in Served :
       Cardinality({i \in 1..Len(v) :
          v[i].context = c
            /\ v[i].at = k * PERIODIC_PUBLISH_INTERVAL_SECONDS}) = 1
  /\ (clock > 0 \/ publisher.pc = "sleep") => 0 \in RoundsDone
  /\ Queued(requests) = 1..sent
  /\ (last.ran /\ last.job.id \in Queued(v)) =>
       last.out.published = <<last.job.record>>

\* in the second round of two served spheres, the record of one, expired
\* by then, was published again and the other, with no record, got no job
C11_Witness ==
  /\ Len(local_spheres) = 2 /\ clock = PERIODIC_PUBLISH_INTERVAL_SECONDS
  /\ last.ran /\ last.job.id \in Queued(Visits("publisher"))
  /\ ~has_publishable_timeframe(last.job.record, last.now)
  /\ last.out.ok /\ last.out.ns[sphere_identity(last.job.record)] = last.job.record
  /\ \E i \in 1..Len(requests) :
       /\ requests[i].by = "publisher" /\ requests[i].at = clock
       /\ requests[i].found /\ requests[i].job = NoJob

\* C12 as stated: two consecutive ResolveAll jobs of the resolver for the
\* same sphere are 60 s apart, however many spheres are served.
C12_SixtySecondsPerSphere ==
  LET v == Visits("resolver") IN
  \A i \in 1..Len(v) : \A j \in (i + 1)..Len(v) :
    (/\ v[i].context = v[j].context
     /\ \A m \in (i + 1)..(j - 1) : v[m].context # v[i].context)
      => v[j].at - v[i].at = PERIODIC_RESOLVER_INTERVAL_SECONDS

\* C12 amended: the resolver puts one ResolveAll job on the channel every
\* 60 s, the first at start, going round the served spheres in order; so
\* with N served spheres two consecutive jobs for the same sphere are
\* 60 * N s apart.
C12_SixtySecondsPerJob ==
  LET v == Visits("resolver")
      n == Len(local_spheres)
  IN
  /\ \A i \in 1..Len(v) :
       /\ v[i].job.kind = "ResolveAll" /\ v[i].job.id \in 1..sent
       /\ v[i].at = (i - 1) * PERIODIC_RESOLVER_INTERVAL_SECONDS
       /\ v[i].context = ((i - 1) % n) + 1
  /\ \A i \in 1..Len(v) : \A j \in (i + 1)..Len(v) :
       (/\ v[i].context = v[j].context
        /\ \A m \in (i + 1)..(j - 1) : v[m].context # v[i].context)
         => v[j].at - v[i].at = n * PERIODIC_RESOLVER_INTERVAL_SECONDS
  /\ Len(v) = (clock \div PERIODIC_RESOLVER_INTERVAL_SECONDS)
                + (IF resolver.pc = "sleep" /\ resolver.wake > clock
                     THEN 1 ELSE 0)

\* with two served spheres, the first got its second ResolveAll job 120 s
\* after its first
C12_Witness ==
  LET v == Visits("resolver") IN
  /\ Len(local_spheres) = 2 /\ Len(v) >= 3
  /\ v[1].context = 1 /\ v[2].context = 2 /\ v[3].context = 1
  /\ v[3].at - v[1].at = 2 * PERIODIC_RESOLVER_INTERVAL_SECONDS

(* ---------------------- claims on link-records ------------------------ *)
\* (a) some fact of the record is an object with a parsable link
HasLinkFact(u) == \E i \in 1..Len(u.facts) : u.facts[i] # "bad"

\* the time at which the chain is evaluated
ProofTime(u) == IF u.nbf = {} THEN u.exp - 1 ELSE CHOOSE n \in u.nbf : TRUE

\* the chain verifies at time t: the token and every proof it cites are
\* signed and within their time bounds, and every proof is held, was issued
\* to the token's issuer and outlives the token
ChainVerifies(u, t, store) ==
  /\ u.signed /\ u.exp >= t /\ \A n \in u.nbf : n <= t
  /\ \A p \in u.prf :
       /\ p.jwt \in store /\ p.signed /\ p.exp >= t
       /\ p.aud = u.iss /\ p.exp >= u.exp

\* the root issuers behind the capability the token claims
Originators(u) ==
  LET roots == {p.iss : p \in {q \in u.prf :
                   q.with = u.with /\ q.can = u.can}}
  IN IF roots = {} THEN {u.iss} ELSE roots

\* (b) the chain, at the proof time, grants publish on the audience sphere
\* with the audience among the originators
ChainGrantsPublish(u, store) ==
  /\ ChainVerifies(u, ProofTime(u), store)
  /\ u.with = u.aud /\ u.can = "publish"
  /\ u.aud \in Originators(u)

\* C19: validate returns Ok exactly when (a) the record has a link fact,
\* (b) its chain at the proof time grants publish on the audience with the
\* audience among the originators, and (c) its signature is valid; so a
\* self-signed record and one issued by a key holding a delegation of the
\* sphere's key validate, and a record without link fact, with a capability
\* for another sphere, or issued by a key without delegation does not.
C19_ValidateIff ==
  checked.validated \in {"Ok", "Err"} =>
    LET u == checked.record
        sound == /\ HasLinkFact(u) /\ u.signed /\ u.can = "publish"
                 /\ u.with = u.aud /\ \A n \in u.nbf : n <= u.exp
    IN
    /\ (checked.validated = "Ok") <=>
         (HasLinkFact(u) /\ ChainGrantsPublish(u, checked.store) /\ u.signed)
    /\ (sound /\ u.iss = u.aud /\ u.prf = {}) => checked.validated = "Ok"
    /\ (sound /\ u.iss = "k1" /\ u.prf = {Proof("j1", "d0", "k1", "d0", "publish", 9, TRUE)}
          /\ "j1" \in checked.store) => checked.validated = "Ok"
    /\ ~HasLinkFact(u) => checked.validated = "Err"
    /\ u.with # u.aud => checked.validated = "Err"
    /\ (u.iss # u.aud /\ u.prf = {}) => checked.validated = "Err"

\* a record issued by a key that holds a delegation from the sphere's key
\* was validated
C19_Witness ==
  /\ checked.validated = "Ok"
  /\ checked.record.iss = "k1" /\ checked.record.aud = "d0"
  /\ checked.record.prf # {} /\ checked.record.nbf # {}

\* C20: the result of validate does not depend on what the clock reads; a
\* record whose expiry is past, with a link fact, an authorizing chain and a
\* valid signature, validates Ok while has_publishable_timeframe is false.
C20_ValidateIgnoresCurrentTime ==
  LET u == checked.record IN
  /\ checked.validated \in {"Ok", "Err"} =>
       \A t \in 1..MaxNow :
         (checked.validated = "Ok") = LinkRecord_validate(u, checked.store, t)
  /\ (/\ checked.validated \in {"Ok", "Err"}
      /\ checked.publishable \in {"true", "false"}
      /\ u.exp < checked.current
      /\ HasLinkFact(u) /\ ChainGrantsPublish(u, checked.store) /\ u.signed)
       => (checked.validated = "Ok" /\ checked.publishable = "false")

\* a record past its expiry was found valid and not publishable
C20_Witness ==
  /\ checked.validated = "Ok" /\ checked.publishable = "false"
  /\ checked.record.exp < checked.current
  /\ checked.record.nbf = {}

(* -------------------- claims on gateway authorization ----------------- *)
\* the header claims an address that is not the address of its jwt
Mismatching(header) ==
  /\ header # OpaqueHeader
  /\ Len(header) >= 2
  /\ header[1] # cid_of(header[2])

Rejected == exchange.status \in {400, 401, 500}
Answered == exchange.status # 0
ServerSideComplete ==
  exchange.server.context_present /\ exchange.server.scope_present

\* C15: a request with a ucan header whose claimed address differs from the
\* address of its jwt is answered 400, whatever its bearer token and its
\* other headers are (the gateway holding its sphere context and scope).
C15_MismatchIsBadRequest ==
  (/\ Answered /\ ServerSideComplete
   /\ \E i \in 1..Len(exchange.request.ucan_headers) :
        Mismatching(exchange.request.ucan_headers[i]))
    => exchange.status = 400

\* a request with a good bearer token, an accepted header and then a
\* mismatching one was answered
C15_Witness ==
  /\ exchange.status = 400 /\ ServerSideComplete
  /\ exchange.request.bearer = "b1" /\ exchange.request.write_ok
  /\ Len(exchange.request.ucan_headers) = 2
  /\ exchange.request.ucan_headers[1] = <<"c1", "j1">>
  /\ exchange.request.ucan_headers[2] = <<"c1", "j3">>

\* C16: only accepted jwts are stored: after a request is rejected, the jwt
\* of a mismatching ucan header is not in the token store, unless a header
\* with a matching claim carried it.
C16_MismatchedNotStored ==
  (Answered /\ Rejected) =>
    \A i \in 1..Len(exchange.request.ucan_headers) :
      Mismatching(exchange.request.ucan_headers[i]) =>
        (exchange.request.ucan_headers[i][2] \in tokens
           => exchange.request.ucan_headers[i][2] \in exchange.accepted)

\* the capability the chain of a token grants, and where it stems from
Grants(u, capability) ==
  /\ u.with = capability.with
  /\ u.can = capability.can

\* C17: try_authorize(capability) returns Ok exactly when a capability
\* reduced from the bearer token's chain enables the requested one and has
\* the gateway's counterpart among its originators; otherwise it returns 401.
C17_TryAuthorizeIff ==
  exchange.authorized # "none" =>
    /\ exchange.authorized \in {"Ok", "401"}
    /\ (exchange.authorized = "Ok") <=>
         (/\ Grants(BearerTokens[exchange.request.bearer], exchange.capability)
          /\ Counterpart \in Originators(BearerTokens[exchange.request.bearer]))

\* a token issued by a key that cites a delegation of the counterpart's key
\* was authorized
C17_Witness ==
  /\ exchange.authorized = "Ok"
  /\ exchange.request.bearer = "b2"
  /\ exchange.capability = Capability("d0", "publish")

\* the bearer token's chain verifies against the store when it is built
BearerVerifies(request, store) ==
  /\ request.bearer \in DOMAIN BearerTokens
  /\ ChainVerifies(BearerTokens[request.bearer], request.now, store)

\* C18: a missing sphere context or gateway scope gives 500; with both, a
\* missing bearer header gives 400 and, the ucan headers being accepted, a
\* bearer token whose chain fails to verify gives 400; a token whose chain
\* does not grant the capability asked for gives 401.
C18_StatusCodes ==
  /\ (Answered /\ ~ServerSideComplete) => exchange.status = 500
  /\ (Answered /\ ServerSideComplete /\ exchange.request.bearer = "none")
       => exchange.status = 400
  /\ (Answered /\ ServerSideComplete /\ exchange.request.bearer # "none"
        /\ ~BearerVerifies(exchange.request, tokens))
       => exchange.status = 400
  /\ (/\ exchange.authorized # "none"
      /\ ~(/\ Grants(BearerTokens[exchange.request.bearer], exchange.capability)
           /\ Counterpart \in Originators(BearerTokens[exchange.request.bearer])))
       => exchange.authorized = "401"
  /\ exchange.status = 500 => ~ServerSideComplete

\* a token citing a delegation the store does not hold was answered 400
C18_Witness ==
  /\ exchange.status = 400 /\ ServerSideComplete
  /\ exchange.request.bearer = "b2"
  /\ exchange.request.ucan_headers = <<>>
  /\ "j1" \notin tokens

\* the facts of the record that carry a parsable link
LinkFacts(u) == {i \in 1..Len(u.facts) : u.facts[i] # "bad"}

\* C21: a link-record that validate accepts has exactly one fact with a
\* parsable link; a record with two or more such facts is not accepted.
C21_ExactlyOneLinkFact ==
  checked.validated = "Ok" => Cardinality(LinkFacts(checked.record)) = 1

SignedBy(record, key) ==
  /\ record.revoke \in {"c1", "c2", "C1"}
  /\ record.challenge.base64
  /\ record.challenge.of.by = key
  /\ record.challenge.of.over[1] = "REVOKE:"
  /\ record.challenge.of.over[2]
       = (IF record.revoke = "c2" THEN "c2" ELSE "c1")

\* C23: verifying a revocation record under a key succeeds exactly when its
\* challenge is a signature over "REVOKE:" + token address under that key,
\* so under the key of the issuer the record names it succeeds exactly when
\* that issuer signed; a record made by revoke(cid, k) verifies for k and
\* for no other key.
C23_RevocationValidIff ==
  revocation.verified \in {"Ok", "Err"} =>
    /\ (revocation.verified = "Ok")
         <=> SignedBy(revocation.record, revocation.claimed_issuer)
    /\ revocation.claimed_issuer = revocation.record.iss =>
         ((revocation.verified = "Ok")
            <=> SignedBy(revocation.record, revocation.record.iss))
    /\ revocation.made_by # "none" =>
         ((revocation.verified = "Ok")
            <=> revocation.claimed_issuer = revocation.made_by)

\* a record made by revoke was put to another key and failed
C23_Witness ==
  /\ revocation.verified = "Err"
  /\ revocation.made_by = "d0"
  /\ revocation.claimed_issuer = "k1"

(* ------------------------ claims on sphere memos ---------------------- *)
\* the memo's signature header is a signature over its body by the key
SignedOverBody(memo, key) ==
  /\ memo.signature.present
  /\ memo.signature.text.base64
  /\ memo.signature.text.of.by = key
  /\ memo.signature.text.of.over = "body"

\* the token the proof header names is held, and its chain grants push on
\* the memo's sphere with the sphere's identity as originator
ProofGrantsPush(memo) ==
  /\ memo.proof \in DOMAIN MemoProofs
  /\ ChainVerifies(MemoProofs[memo.proof], memo.now, memo.witnesses)
  /\ MemoProofs[memo.proof].with = memo.identity
  /\ MemoProofs[memo.proof].can = "push"
  /\ memo.identity \in Originators(MemoProofs[memo.proof])

\* C24: verify_sphere_cid accepts a stored sphere memo exactly when its
\* signature over the body address verifies under (a) the key of the
\* sphere's identity, or (b) the audience key of the token its proof header
\* names, whose chain grants push on the sphere with the identity as
\* originator; a memo of another content type, without signature header or
\* with a proof that does not grant push on the sphere is rejected.
C24_VerifySphereCidIff ==
  (/\ verification.verified \in {"Ok", "Err"}
   /\ verification.memo.memo_loads /\ verification.memo.body_loads) =>
    LET memo == verification.memo IN
    /\ (verification.verified = "Ok") <=>
         (/\ memo.content_type = "sphere"
          /\ \/ SignedOverBody(memo, memo.identity)
             \/ /\ memo.proof \in DOMAIN MemoProofs
                /\ SignedOverBody(memo, MemoProofs[memo.proof].aud)
                /\ ProofGrantsPush(memo))
    /\ memo.content_type # "sphere" => verification.verified = "Err"
    /\ ~memo.signature.present => verification.verified = "Err"
    /\ (memo.proof # "none" /\ ~ProofGrantsPush(memo))
         => verification.verified = "Err"

(* ---------------------- claims on block streams ----------------------- *)
StreamEnded == replication.pc = "ended"

\* C25: block_stream yields no content address twice, and so the archive
\* of car_stream holds no address twice.
C25_NoDuplicateAddress ==
  replication.revision.content_type = "sphere" =>
    \A b \in Blocks :
      replication.yielded[b] <= 1 /\ replication.car.frames[b] <= 1

\* C26: the archive of a sphere revision, loaded into an empty store, holds
\* every block a fresh reader needs to open the sphere, look up every slug
\* and petname, walk the delegations and revocations, and retrieve the
\* link-record token of each petname that adopted one.
C26_ArchiveFidelity ==
  (/\ StreamEnded
   /\ replication.revision.content_type = "sphere"
   /\ replication.revision.broken = "none")
    => /\ replication.car.last = "end"
       /\ \A i \in 1..Len(reader_gets(replication.revision)) :
            reader_gets(replication.revision)[i] \in loaded(replication.car)

C26_Witness ==
  /\ StreamEnded
  /\ replication.revision.content_type = "sphere"
  /\ replication.revision.broken = "none"
  /\ replication.revision.records["a"] = "tok1"
  /\ "tok1" \in loaded(replication.car)
  /\ Hamt["revocations"] \in loaded(replication.car)

\* a read that the stream needs has failed: the memo's, one of the main
\* task's or of a walker task's for a sphere, a chunk's for another body
StreamFailure ==
  \/ replication.revision.broken = "memo"
  \/ /\ replication.revision.content_type = "sphere"
     /\ \/ \E i \in 1..Len(MainLoads) : MainLoads[i] = replication.revision.broken
        \/ \E w \in Walkers : replication.tasks[w].result = "Err"
  \/ /\ replication.revision.content_type = "bytes"
     /\ \E i \in 1..replication.revision.chunks :
          Chunks[i] = replication.revision.broken

\* C27: when loading the memo, a walker task or a body-chunk read fails,
\* the last item of block_stream is an Err and car_stream ends with an I/O
\* error item.
C27_ErrorsEndTheStream ==
  (StreamEnded /\ StreamFailure)
    => replication.last = "Err" /\ replication.car.last = "BrokenPipe"

C27_Witness ==
  /\ StreamEnded
  /\ replication.tasks["content"].result = "Err"
  /\ replication.tasks["identities"].result = "Ok"
  /\ replication.yielded["memo"] = 1
  /\ replication.last = "Err"
  /\ replication.car.last = "BrokenPipe"

(* -------------------- claims on the message channel ------------------- *)
RespondCalled(call) == call.respond # "not called"

\* C28: for a call of send_request_async, the value given to respond is
\* what the caller receives and respond returns true; for a one-way
\* send_request, respond returns false and nobody is given the response.
C28_RespondReachesTheCaller ==
  channel.processor # "none" =>
    \A i \in 1..Len(channel.calls) :
      /\ (channel.calls[i].mode = "async" /\ RespondCalled(channel.calls[i]))
           => /\ channel.calls[i].respond = "true"
              /\ IF channel.calls[i].rx = "done"
                   THEN channel.calls[i].received = channel.calls[i].response
                 ELSE /\ channel.calls[i].slot = channel.calls[i].response
                      /\ channel.calls[i].received = NoResponse
      /\ (channel.calls[i].mode = "one-way" /\ RespondCalled(channel.calls[i]))
           => /\ channel.calls[i].respond = "false"
              /\ channel.calls[i].received = NoResponse
              /\ channel.calls[i].slot = NoResponse
              /\ channel.calls[i].rx = "dropped"

C28_Witness ==
  /\ channel.processor # "none"
  /\ \E i, j \in 1..Len(channel.calls) :
       /\ channel.calls[i].mode = "async"
       /\ channel.calls[i].rx = "done"
       /\ channel.calls[i].respond = "true"
       /\ channel.calls[i].received = Response("Err", "thrown!")
       /\ channel.calls[j].mode = "one-way"
       /\ channel.calls[j].respond = "false"
       /\ channel.calls[j].response = Response("Ok", "GenericResult")

(* ------------------------- claims on resolve_all ---------------------- *)
LastResolves ==
  LastIs("ResolveAll") \/ LastIs("ResolveSince") \/ LastIs("ResolveImmediately")
\* the address book the context holds after the last job, pending changes
\* included
BookAfter ==
  apply_changelog(get_identities(last.out.history), last.out.unsaved, 1)
BookBefore == book_at(history, last.head_before)

PublishedFor(i) == last.out.ns[BookBefore[last.out.stream[i][1]].did]

\* C29: once another gateway has published a link-record for its version
\* and the worker has processed a resolve job for a petname that points at
\* that sphere's identity, with the resolver answering, resolve_petname
\* gives that version; and for a petname that is unset it gives none.
C29_PetnameRoundTrip ==
  /\ (LastResolves /\ ~last.out.resolve_failed) =>
       \A i \in 1..Len(last.out.stream) :
         (/\ BookBefore[last.out.stream[i][1]] # NoIdentity
          /\ PublishedFor(i) # NoRecord
          /\ get_link(PublishedFor(i)) # NoLink)
           => resolve_petname(last.out.history, last.out.stream[i][1])
                = get_link(PublishedFor(i))
  /\ last.ran =>
       \A k \in Petnames :
         BookBefore[k] = NoIdentity
           => resolve_petname(last.out.history, k) = ReplyNone

StoredAfter == read(last.out.history, Len(last.out.history))

\* C32: a Publish job stores its record as the counterpart link record
\* whatever the expiry check and resolver.publish then do (the counterpart
\* key being set): after a job with expiry enforcement and an expired
\* record, the job has failed, nothing was published and the stored
\* counterpart record is that record.
C32_StoredBeforeCheck ==
  (LastIs("Publish") /\ last.key_ok) =>
    /\ last.out.saved = 1
    /\ StoredAfter = last.job.record
    /\ Len(last.out.history) = last.head_before + 1
    /\ (last.job.temporary_validate_expiry
        /\ ~has_publishable_timeframe(last.job.record, last.now))
         => ~last.out.ok /\ last.out.published = <<>>

C32_Witness ==
  /\ LastIs("Publish") /\ last.key_ok
  /\ last.job.temporary_validate_expiry
  /\ is_expired(last.job.record, last.now)
  /\ ~last.out.ok
  /\ StoredAfter = last.job.record
  /\ read(history, last.head_before) # last.job.record

(* ---------------------- claims on get_link ---------------------------- *)
\* a fact qualifies: it is an object whose link field is a string that
\* parses as a content address
Qualifies(fact) == fact \in {"c1", "c2", "C1"}
\* the address a qualifying fact's link parses to
AddressOf(fact) == IF fact = "C1" THEN "c1" ELSE fact
Qualifying(facts) == {i \in 1..Len(facts) : Qualifies(facts[i])}

\* C33: get_link returns the link of the first fact, in fact order, that
\* qualifies; facts that are no objects, lack a link field or hold a link
\* that does not parse are skipped; the result is none exactly when no fact
\* qualifies.
C33_GetLinkFirstQualifying ==
  checked.link # "pending" =>
    IF Qualifying(checked.facts) = {}
      THEN checked.link = NoLink
      ELSE checked.link =
             AddressOf(checked.facts[
               CHOOSE i \in Qualifying(checked.facts) :
                 \A j \in Qualifying(checked.facts) : i <= j])

C33_Witness ==
  /\ checked.facts = <<"scalar", "bad", "c2">>
  /\ checked.link = "c2"

(* ------------------ claims on what the stream holds ------------------- *)
\* the blocks of the body of a memo that is no sphere
BodyChunks(revision) == {Chunks[i] : i \in 1..revision.chunks}

\* C34: for a memo whose content type is not sphere, the stream yields the
\* memo and every chunk of its body, and no block of a sphere; a store
\* filled from the stream can load the memo and the whole body.
C34_BodyOfOtherContent ==
  (/\ StreamEnded
   /\ replication.revision.content_type # "sphere"
   /\ replication.revision.broken = "none")
    => /\ replication.last = "end"
       /\ \A b \in Blocks :
            replication.yielded[b] > 0
              <=> b \in {"memo"} \cup BodyChunks(replication.revision)

\* C35: for a sphere memo the stream holds, for every slug of the content
\* map, the content's memo and the blocks of that memo's body.
C35_ContentWalkedDeeply ==
  (/\ StreamEnded
   /\ replication.revision.content_type = "sphere"
   /\ replication.revision.broken = "none")
    => \A i \in 1..Len(Slugs) :
         /\ replication.yielded[replication.revision.links[i]] > 0
         /\ replication.yielded[Body[replication.revision.links[i]]] > 0

\* the requests the channel took: the send did not fail
Sent(i) ==
  /\ i \in 1..Len(channel.calls)
  /\ channel.calls[i].received # Response("ChannelError", "SendError")
PulledAt(i) == {k \in 1..Len(channel.pulled) : channel.pulled[k] = i}

\* C36: the processor pulls the requests in the order they were sent and
\* none is lost: a request sent before another one has been pulled before
\* that one is pulled, each is pulled at most once, and while the processor
\* lives every request sent is queued or has been pulled.
C36_PulledInSendOrder ==
  /\ \A k \in 1..Len(channel.pulled) : \A i \in 1..Len(channel.calls) :
       (Sent(i) /\ i < channel.pulled[k])
         => \E h \in PulledAt(i) : h < k
  /\ \A i \in 1..Len(channel.calls) : Cardinality(PulledAt(i)) <= 1
  /\ channel.processor = "open"
       => \A i \in 1..Len(channel.calls) :
            Sent(i) =>
              \/ PulledAt(i) # {}
              \/ \E q \in 1..Len(channel.queue) : channel.queue[q] = i
\* two one-way requests, sent while the first was still queued, and
\* a third request, all of them pulled
C36_Witness ==
  /\ Len(channel.pulled) = 3
  /\ channel.calls[1].mode = "one-way"
  /\ channel.calls[2].mode = "one-way"
  /\ channel.calls[1].request # channel.calls[2].request
  /\ channel.processor = "open"

\* the request of the periodic publisher that sent the job run last
ByPublisher(k) ==
  /\ k \in 1..Len(requests)
  /\ last.ran
  /\ last.job = requests[k].job

\* C37: periodic republication does not revert a newer record: when a
\* Publish job for another record was queued as the publisher read the
\* stored record and sent its own job, then after both jobs the stored
\* counterpart record and the record the resolver holds are the queued
\* job's record (both jobs having run without an error).
C37_NewerRecordKept ==
  \A k \in 1..Len(requests) : \A a \in 1..Len(requests[k].ahead) :
    LET newer == requests[k].ahead[a] IN
    (/\ ByPublisher(k)
     /\ newer.kind = "Publish"
     /\ newer.record # requests[k].job.record
     /\ \E i \in 1..Len(done) :
          done[i].id = newer.id /\ done[i].ran /\ done[i].ok
     /\ last.key_ok /\ last.out.ok)
      => /\ StoredAfter = newer.record
         /\ last.out.ns[Counterpart] = newer.record

\* a Publish job with expiry enforcement that rejected its record
Unpublishable(d) ==
  /\ d.kind = "Publish"
  /\ d.ran
  /\ ~d.ok
  /\ ~d.publish_failed

\* the claim of C38 as it was made: a record an enforcing Publish job
\* rejected is passed to resolver.publish by no later job.
C38_RejectedNeverPublished ==
  \A i \in 1..Len(done) :
    (/\ Unpublishable(done[i])
     /\ LastIs("Publish")
     /\ last.job.id > done[i].id
     /\ last.job.record = done[i].record)
      => last.out.published = <<>>

\* C38: a record an enforcing Publish job rejected is not passed to
\* resolver.publish by that job, nor by a later job that enforces the
\* expiry and finds the record unpublishable; the later jobs that do
\* publish it are those sent without enforcement, as the periodic
\* publisher's are.
C38_RejectedPublishedUnenforced ==
  \A i \in 1..Len(done) :
    /\ (Unpublishable(done[i]) /\ last.job.id = done[i].id)
         => last.out.published = <<>>
    /\ (/\ Unpublishable(done[i])
        /\ LastIs("Publish")
        /\ last.job.id > done[i].id
        /\ last.job.record = done[i].record
        /\ last.out.published # <<>>)
         => \/ ~last.job.temporary_validate_expiry
            \/ has_publishable_timeframe(last.job.record, last.now)
\* the publisher's job publishes the record an enforcing job had rejected
C38_Witness ==
  /\ Len(done) = 2
  /\ Unpublishable(done[1])
  /\ ByPublisher(1)
  /\ last.job.record = done[1].record
  /\ last.out.published = <<last.job.record>>
  /\ last.out.ns[Counterpart] = last.job.record

\* the worker has taken the ResolveImmediately job of this id
Taken(id) ==
  /\ pc = "process"
  /\ current.kind = "ResolveImmediately"
  /\ current.id = id

remaining(r, w) ==
  IF r.tasks[w].result = "running"
    THEN Len(walker_gets(r.revision, w)) - r.tasks[w].pos + 1
  ELSE 0
\* what the receive loop still has to do: three for each step left to a
\* walker (a step reads at most two blocks), one for each block in the tap,
\* and one for the end
Rank(r) ==
  3 * (remaining(r, "identities") + remaining(r, "content")
       + remaining(r, "delegations") + remaining(r, "revocations"))
    + Len(r.tap) + (IF r.pc = "ended" THEN 0 ELSE 1)

\* C40: block_stream on a sphere memo terminates: in the receive loop a
\* step is always possible (a block to receive, a walker to run, or, once
\* the walkers have finished, no sender left, so that the channel is closed
\* and the loop ends), every step of the loop brings the end nearer, and
\* the reads made before the loop fit the tap's channel.
C40_BlockStreamTerminates ==
  /\ [](replication.pc = "recv" =>
          \/ replication.tap # <<>>
          \/ \E w \in Walkers :
               /\ replication.tasks[w].result = "running"
               /\ Len(replication.tap) < TAP_CAPACITY
          \/ tap_senders(replication) = {})
  /\ [][replication.pc = "recv" => Rank(replication') < Rank(replication)]_vars
  /\ [][replication.pc = "start" =>
          Len(replication'.tap) <= TAP_CAPACITY]_vars
\* the stream of a sphere has ended after its four walkers finished
C40_Witness ==
  /\ StreamEnded
  /\ replication.revision.content_type = "sphere"
  /\ \A w \in Walkers : replication.tasks[w].result = "Ok"
  /\ replication.last = "end"
  /\ replication.yielded["memo"] = 1

====
